---- MODULE Spec2Model ----
(***************************************************************************)
(* Session directory cache of the Telegram bot                             *)
(* (src/src/session/cache-manager.ts): the module-level state, the         *)
(* exported operations and the cooperative interleaving of their async     *)
(* bodies.  Every step between two await points is one atomic action.      *)
(***************************************************************************)
EXTENDS Integers, Sequences, FiniteSets, TLC

(***************************************************************************)
(* Program constants                                                       *)
(***************************************************************************)
CACHE_VERSION == 1
INITIAL_WARMUP_LIMIT == 1000
INCREMENTAL_SYNC_LIMIT == 1000
MAX_CACHED_DIRECTORIES == 10
SYNC_SAFETY_WINDOW_MS == 60000
SYNC_COOLDOWN_MS == 60000
MaxRoots == 2           \* getStorageRootCandidates: one root for home, one for state

(***************************************************************************)
(* Bounds of the model                                                     *)
(***************************************************************************)
MaxTicks == 2           \* advances of the wall clock
MaxBatch == 2           \* records in one remote / sqlite answer
MaxFiles == 2           \* session files found by the raw file scan
MaxApi == 2             \* projects in one answer of project.list
MaxLoad == 2            \* stored directory entries drawn freely
MaxSubs == 2            \* subscribeToEvents calls in one run
NumFillers == 11        \* further directories, upserted in a fixed order

TickMs == SYNC_COOLDOWN_MS \div 2
StartTime == 2 * SYNC_COOLDOWN_MS
EndTime == StartTime + MaxTicks * TickMs
Absent == 0 - 1         \* a missing optional number (time.updated, a NULL)
T_OLD == StartTime            \* older than every filler directory
T_NEW == StartTime + TickMs   \* newer than every filler directory
TimeStamps == {T_OLD, T_NEW}
FillerStep == TickMs \div 30  \* distance of the filler directories' timestamps
FillerStamp(i) == T_OLD + FillerStep * i

(***************************************************************************)
(* Strings are sequences of characters, so that trim() and toLowerCase()   *)
(* are computed and not assumed.                                           *)
(***************************************************************************)
WA == <<"/", "a">>
WAUpper == <<"/", "A">>
WAPadded == <<" ", "/", "a", " ">>
WRoot == <<"/">>
WRootPadded == <<" ", "/">>
WBlank == <<" ", " ">>
WEmpty == <<>>

Worktrees == {WA, WAUpper, WAPadded, WRoot, WRootPadded, WBlank, WEmpty}

Digits == <<"0", "1", "2", "3", "4", "5", "6", "7", "8", "9", "x", "y", "z">>
Filler(i) == <<"/", "r", Digits[i]>>

IsSpace(c) == c = " "

LowerChar(c) == CASE c = "A" -> "a" [] c = "B" -> "b" [] c = "R" -> "r" [] OTHER -> c

toLowerCase(s) == [i \in 1..Len(s) |-> LowerChar(s[i])]

RECURSIVE trimStart_Keep(_)
trimStart_Keep(s) == s

RECURSIVE trimStart(_)
trimStart(s) == IF s # <<>> /\ IsSpace(Head(s)) THEN trimStart(Tail(s)) ELSE s

RECURSIVE trimEnd(_)
trimEnd(s) ==
  IF s # <<>> /\ IsSpace(s[Len(s)]) THEN trimEnd(SubSeq(s, 1, Len(s) - 1)) ELSE s

trim(s) == trimEnd(trimStart(s))

worktreeKey(plat, worktree) ==
  IF plat = "win32" THEN toLowerCase(worktree) ELSE worktree

isValidWorktree(worktree) ==
  LET trimmed == trim(worktree) IN Len(trimmed) > 0 /\ trimmed # <<"/">>

(***************************************************************************)
(* Cache data                                                              *)
(***************************************************************************)
Dir(w, u) == [worktree |-> w, lastUpdated |-> u]

createEmptyCacheData ==
  [version |-> CACHE_VERSION, lastSyncedUpdatedAt |-> 0, directories |-> <<>>]

\* unique.set(key, item) of a Map: a new key is appended, a known key keeps
\* its position and takes the new value.
RECURSIVE MapSet(_, _, _)
MapSet(plat, uniq, item) ==
  IF uniq = <<>> THEN <<item>>
  ELSE IF worktreeKey(plat, Head(uniq).worktree) = worktreeKey(plat, item.worktree)
       THEN IF Head(uniq).lastUpdated < item.lastUpdated
            THEN <<item>> \o Tail(uniq)
            ELSE uniq
       ELSE <<Head(uniq)>> \o MapSet(plat, Tail(uniq), item)

RECURSIVE UniqueByKey(_, _, _)
UniqueByKey(plat, items, uniq) ==
  IF items = <<>> THEN uniq
  ELSE UniqueByKey(plat, Tail(items), MapSet(plat, uniq, Head(items)))

\* Array.prototype.sort with (a, b) => b.lastUpdated - a.lastUpdated: stable.
RECURSIVE InsertDesc_TiesFirst(_, _)
InsertDesc_TiesFirst(sorted, item) ==
  IF sorted = <<>> THEN <<item>>
  ELSE IF Head(sorted).lastUpdated > item.lastUpdated
       THEN <<Head(sorted)>> \o InsertDesc_TiesFirst(Tail(sorted), item)
       ELSE <<item>> \o sorted

RECURSIVE InsertDesc(_, _)
InsertDesc(sorted, item) ==
  IF sorted = <<>> THEN <<item>>
  ELSE IF Head(sorted).lastUpdated >= item.lastUpdated
       THEN <<Head(sorted)>> \o InsertDesc(Tail(sorted), item)
       ELSE <<item>> \o sorted

SortDesc_Unsorted(items, sorted) == items

RECURSIVE SortDesc(_, _)
SortDesc(items, sorted) ==
  IF items = <<>> THEN sorted
  ELSE SortDesc(Tail(items), InsertDesc(sorted, Head(items)))

Slice_Oldest(items, n) ==
  SubSeq(items, IF Len(items) < n THEN 1 ELSE Len(items) - n + 1, Len(items))

Slice_NoCap(items, n) == items

\* .slice(0, n)
Slice(items, n) == SubSeq(items, 1, IF Len(items) < n THEN Len(items) ELSE n)

dedupeAndTrimDirectories(plat, dirs) ==
  Slice(SortDesc(UniqueByKey(plat, dirs, <<>>), <<>>), MAX_CACHED_DIRECTORIES)

findIndex(plat, dirs, key) ==
  LET hits == {i \in 1..Len(dirs) : worktreeKey(plat, dirs[i].worktree) = key}
  IN IF hits = {} THEN 0 ELSE CHOOSE i \in hits : \A j \in hits : i <= j

KeepsExisting_Never(existingStamp, lastUpdated) == FALSE

KeepsExisting_Strict(existingStamp, lastUpdated) == existingStamp > lastUpdated

\* line 169: the cached entry is at least as recent
KeepsExisting(existingStamp, lastUpdated) == existingStamp >= lastUpdated

\* upsertDirectory: the new directory list and the returned flag.
upsertDirectory(plat, dirs, worktree, lastUpdated) ==
  IF ~isValidWorktree(worktree) THEN [changed |-> FALSE, directories |-> dirs]
  ELSE
    LET normalizedWorktree == trim(worktree)
        key == worktreeKey(plat, normalizedWorktree)
        existingIndex == findIndex(plat, dirs, key)
    IN IF existingIndex > 0
       THEN IF KeepsExisting(dirs[existingIndex].lastUpdated, lastUpdated)
            THEN [changed |-> FALSE, directories |-> dirs]
            ELSE [changed |-> TRUE,
                  directories |-> dedupeAndTrimDirectories(plat,
                     [dirs EXCEPT ![existingIndex] =
                        Dir(dirs[existingIndex].worktree, lastUpdated)])]
       ELSE [changed |-> TRUE,
             directories |-> dedupeAndTrimDirectories(plat,
                Append(dirs, Dir(normalizedWorktree, lastUpdated)))]

\* runSync 216-228, sqlite fallback 360-371: upsert every record in order,
\* tracking the changed flag and the largest timestamp seen.
RECURSIVE IngestRecords(_, _, _, _, _)
IngestRecords(plat, dirs, recs, changed, maxUpdated) ==
  IF recs = <<>>
  THEN [directories |-> dirs, changed |-> changed, maxUpdated |-> maxUpdated]
  ELSE LET r == Head(recs)
           up == upsertDirectory(plat, dirs, r.worktree, r.lastUpdated)
       IN IngestRecords(plat, up.directories, Tail(recs),
                        changed \/ up.changed,
                        IF r.lastUpdated > maxUpdated THEN r.lastUpdated ELSE maxUpdated)

\* lines 230-233, 373-376, 445-448: advance the watermark to maxUpdated
AdvanceWatermark(data, dirs, changed, maxUpdated) ==
  [data |-> [data EXCEPT !.directories = dirs, !.lastSyncedUpdatedAt = maxUpdated],
   changed |-> changed \/ maxUpdated # data.lastSyncedUpdatedAt]

IngestBatch(plat, data, recs) ==
  LET r == IngestRecords(plat, data.directories, recs, FALSE, data.lastSyncedUpdatedAt)
  IN AdvanceWatermark(data, r.directories, r.changed, r.maxUpdated)

buildListParams_NoClamp(data) ==
  IF ~(data.lastSyncedUpdatedAt > 0)
  THEN [limit |-> INITIAL_WARMUP_LIMIT, start |-> Absent]
  ELSE [limit |-> INCREMENTAL_SYNC_LIMIT,
        start |-> data.lastSyncedUpdatedAt - SYNC_SAFETY_WINDOW_MS]

buildListParams(data) ==
  IF ~(data.lastSyncedUpdatedAt > 0)
  THEN [limit |-> INITIAL_WARMUP_LIMIT, start |-> Absent]
  ELSE [limit |-> INCREMENTAL_SYNC_LIMIT,
        start |-> IF data.lastSyncedUpdatedAt - SYNC_SAFETY_WINDOW_MS > 0
                  THEN data.lastSyncedUpdatedAt - SYNC_SAFETY_WINDOW_MS ELSE 0]

(***************************************************************************)
(* Settings store (settings/manager.ts): one blob under the key            *)
(* sessionDirectoryCache.                                                  *)
(***************************************************************************)
AbsentBlob == [kind |-> "absent", lastSyncedUpdatedAt |-> 0, directories |-> <<>>]
Blob(data) == [kind |-> "object", lastSyncedUpdatedAt |-> data.lastSyncedUpdatedAt,
               directories |-> data.directories]

FullBlob ==
  [kind |-> "object", lastSyncedUpdatedAt |-> FillerStamp(MAX_CACHED_DIRECTORIES),
   directories |-> [i \in 1..MAX_CACHED_DIRECTORIES |->
                      Dir(Filler(MAX_CACHED_DIRECTORIES + 1 - i),
                          FillerStamp(MAX_CACHED_DIRECTORIES + 1 - i))]]

InitialBlobs == {AbsentBlob, FullBlob}

getSessionDirectoryCache(blob) == blob

setSessionDirectoryCache(blob, data) == Blob(data)

\* A stored value whose type is not the one the code expects: Absent for a
\* field that should hold a number, NotString for one that should hold a
\* string (missing, null or of another type). A field that is missing
\* altogether is a field the record does not have.
NotString == <<"undefined">>

TypeofNumber_Any(v) == TRUE

\* lines 84, 95: typeof v === "number" (a number read from JSON is finite)
TypeofNumber(v) == v # Absent

\* line 94
TypeofString(v) == v # NotString

\* lines 89-102: well-typed entries, trimmed, with a valid worktree
RECURSIVE FilterValid(_)
FilterValid(items) ==
  IF items = <<>> THEN <<>>
  ELSE IF ~(TypeofString(Head(items).worktree) /\ TypeofNumber(Head(items).lastUpdated))
       THEN FilterValid(Tail(items))
       ELSE LET item == Dir(trim(Head(items).worktree), Head(items).lastUpdated)
            IN IF isValidWorktree(item.worktree)
               THEN <<item>> \o FilterValid(Tail(items))
               ELSE FilterValid(Tail(items))

normalizeCacheData(plat, raw) ==
  IF raw.kind # "object" THEN createEmptyCacheData
  ELSE [version |-> CACHE_VERSION,
        lastSyncedUpdatedAt |->
          IF "lastSyncedUpdatedAt" \in DOMAIN raw /\ TypeofNumber(raw.lastSyncedUpdatedAt)
          THEN raw.lastSyncedUpdatedAt ELSE 0,
        directories |->
          dedupeAndTrimDirectories(plat,
            IF "directories" \in DOMAIN raw THEN FilterValid(raw.directories) ELSE <<>>)]

\* ensureCacheLoaded: the snapshot an operation works on
ensureCacheLoaded(plat, loaded, data, blob) ==
  IF loaded THEN data ELSE normalizeCacheData(plat, getSessionDirectoryCache(blob))

(***************************************************************************)
(* State                                                                   *)
(***************************************************************************)
VARIABLES
  platform,           \* process.platform
  now,                \* Date.now()
  stored,             \* settings.sessionDirectoryCache
  cacheData,          \* let cacheData
  cacheLoaded,        \* let cacheLoaded
  syncInFlight,       \* let syncInFlight: the task owning the promise, or NoTask
  lastSyncAttemptAt,  \* let lastSyncAttemptAt
  persistQueue,       \* let persistQueue: the tasks awaiting their queued write
  writing,            \* a setSessionDirectoryCache call is outstanding
  task,               \* the async calls in progress
  prevSync,           \* history: the last completed sync that issued a request
                      \* (its start time is kept for a non-forced one)
  everMax,            \* history: largest timestamp upserted per identity key
  evicted,            \* history: identity keys the cap has dropped
  fillNext,           \* the next filler directory to upsert
  lastUpsert,         \* history: the last upsertSessionDirectory call observed
  lastWrite,          \* history: how the last write observed was answered
  lastRead,           \* history: what the last read observed returned
  eventStream,        \* let eventStream: the subscription whose stream it is
  eventCallback,      \* let eventCallback
  isListening,        \* let isListening
  activeDirectory,    \* let activeDirectory
  streamAbortController,  \* let streamAbortController
  aborted,            \* controller.signal.aborted of every subscription
  sub,                \* the subscribeToEvents calls in progress
  subscribed          \* history: the event.subscribe requests issued

logVars == <<lastUpsert, lastWrite, lastRead>>

eventVars == <<eventStream, eventCallback, isListening, activeDirectory,
               streamAbortController, aborted, sub, subscribed>>

cacheVars == <<platform, now, stored, cacheData, cacheLoaded, syncInFlight,
               lastSyncAttemptAt, persistQueue, writing, task,
               prevSync, everMax, evicted, fillNext, logVars>>

vars == <<cacheVars, eventVars>>

NoTask == "none"
WARM == "warmup"
UPS == "upsert"
SyncCallers == {"sync1", "sync2"}
SyncTasks == {WARM} \cup SyncCallers
Tasks == {WARM, UPS} \cup SyncCallers

\* no list-sessions request is outstanding
NoParams == [limit |-> 0, start |-> Absent]

IdleTask ==
  [pc |-> "idle", op |-> "none", force |-> FALSE, startedAt |-> 0,
   issued |-> FALSE, rfail |-> FALSE,
   outcome |-> "none", roots |-> 0, files |-> 0, maxUpdated |-> 0,
   changed |-> FALSE, stage |-> 0, params |-> NoParams]

NoPrev == [valid |-> FALSE, force |-> FALSE, startedAt |-> 0, rfail |-> FALSE]

Platforms == {"win32", "linux"}

AllInputs == Worktrees \cup {Filler(i) : i \in 1..NumFillers}
KeySpace ==
  {worktreeKey(p, trim(w)) : p \in Platforms, w \in {x \in AllInputs : isValidWorktree(x)}}

NoStamp == Absent

NoUpsert == [worktree |-> <<>>, stamp |-> Absent, called |-> FALSE, again |-> FALSE,
             after |-> createEmptyCacheData]
NoRead == [kind |-> "none", snapshot |-> createEmptyCacheData, value |-> <<>>]

(***************************************************************************)
(* Event listener (opencode/events.ts): the module-level state and the     *)
(* subscribeToEvents calls.  A call owns the AbortController it creates,   *)
(* so a controller, its signal and its stream are named by the call.       *)
(***************************************************************************)
Subs == 1..MaxSubs
NoSub == 0              \* null, for a controller, a stream or a callback
NoDirectory == "null"   \* null, for activeDirectory
EventDirs == {"D:/repo-a", "D:/repo-b"}

IdleSub == [pc |-> "idle", directory |-> NoDirectory, outcome |-> "none", dup |-> FALSE,
            forwarded |-> NoSub]

InitEvents ==
  /\ eventStream = NoSub
  /\ eventCallback = NoSub
  /\ isListening = FALSE
  /\ activeDirectory = NoDirectory
  /\ streamAbortController = NoSub
  /\ aborted = [c \in Subs |-> FALSE]
  /\ sub = [c \in Subs |-> IdleSub]
  /\ subscribed = <<>>

InitRest ==
  /\ platform \in Platforms
  /\ now = StartTime
  /\ cacheData = createEmptyCacheData
  /\ cacheLoaded = FALSE
  /\ syncInFlight = NoTask
  /\ lastSyncAttemptAt = 0
  /\ persistQueue = <<>>
  /\ writing = FALSE
  /\ task = [t \in Tasks |-> IdleTask]
  /\ prevSync = NoPrev
  /\ everMax = [k \in KeySpace |-> NoStamp]
  /\ evicted = {}
  /\ fillNext = 1
  /\ lastUpsert = NoUpsert
  /\ lastWrite = "none"
  /\ lastRead = NoRead
  /\ InitEvents

Init == InitRest /\ stored \in InitialBlobs

Loaded == ensureCacheLoaded(platform, cacheLoaded, cacheData, stored)

\* queuePersist: append a write to the chain; the caller awaits it
queuePersist_Coalesce(t) ==
  persistQueue' = IF persistQueue = <<>> THEN <<t>> ELSE persistQueue

queuePersist(t) == persistQueue' = Append(persistQueue, t)

\* Run to completion: continuations of promises that are already settled
\* (the code after `await ensureCacheLoaded()`, the then/catch/finally
\* reactions, the next link of the persistence chain) are microtasks and all
\* run before the event loop delivers the next I/O completion.
MicrotaskPending ==
  \/ \E t \in DOMAIN task :
       task[t].pc \in {"s_check", "rs_load", "s_then", "s_catch", "s_finally"}
  \/ persistQueue # <<>> /\ ~writing

IoEvent == ~MicrotaskPending

\* the call settles; only what its caller can observe is kept
Finish(rec, outcome) ==
  [IdleTask EXCEPT !.pc = "done", !.op = rec.op, !.force = rec.force,
                   !.issued = rec.issued, !.rfail = rec.rfail,
                   !.stage = rec.stage, !.outcome = outcome]

(***************************************************************************)
(* upsertSessionDirectory(worktree, lastUpdated = Date.now())              *)
(***************************************************************************)
UpsertBody(worktree, lastUpdated) ==
  LET data == Loaded
      up == upsertDirectory(platform, data.directories, worktree, lastUpdated)
  IN /\ task[UPS].pc \in {"idle", "done"}
     /\ cacheLoaded' = TRUE
     /\ IF ~up.changed
        THEN /\ cacheData' = data
             /\ task' = [task EXCEPT ![UPS] = Finish([IdleTask EXCEPT !.op = "upsert"], "resolved")]
             /\ UNCHANGED persistQueue
        ELSE /\ cacheData' =
                  [data EXCEPT !.directories = up.directories,
                               !.lastSyncedUpdatedAt =
                                  IF lastUpdated > data.lastSyncedUpdatedAt
                                  THEN lastUpdated ELSE data.lastSyncedUpdatedAt]
             /\ queuePersist(UPS)
             /\ task' = [task EXCEPT ![UPS] = [IdleTask EXCEPT !.op = "upsert", !.pc = "u_persist"]]
     /\ UNCHANGED <<platform, now, stored, syncInFlight, lastSyncAttemptAt,
                    writing, prevSync, lastWrite, lastRead, eventVars>>

upsertSessionDirectory(worktree, stamp) ==
  /\ UpsertBody(worktree, IF stamp = Absent THEN now ELSE stamp)
  /\ UNCHANGED <<everMax, evicted, fillNext, lastUpsert>>

\* ingestSessionInfoForCache (lines 540-551): a session without directory
\* is ignored before the cache is loaded; the others are upserted with
\* time.updated, or with the clock when the session has none
ingestSessionInfoForCache(session) ==
  IF session.directory = <<>>
  THEN /\ task[UPS].pc \in {"idle", "done"}
       /\ task' = [task EXCEPT ![UPS] = Finish([IdleTask EXCEPT !.op = "ingest"], "resolved")]
       /\ UNCHANGED <<platform, now, stored, cacheData, cacheLoaded, syncInFlight,
                      lastSyncAttemptAt, persistQueue, writing, prevSync,
                      everMax, evicted, fillNext, lastUpsert, lastWrite, lastRead, eventVars>>
  ELSE upsertSessionDirectory(session.directory, session.updated)

(***************************************************************************)
(* The persistence chain: one write at a time, in queue order              *)
(***************************************************************************)
ChainReady_Unchained(busy) == TRUE

\* lines 141-145: the callback of a link is a reaction to the promise of the
\* link before it, and runs once the write of that link has settled
ChainReady(busy) == ~busy

\* setSessionDirectoryCache(cacheData) is called for the head of the chain:
\* the store takes the snapshot as it is now; ok tells whether the write
\* will succeed
PersistBody(ok) ==
  /\ persistQueue # <<>>
  /\ ChainReady(writing)
  /\ writing' = TRUE
  /\ stored' = IF ok THEN setSessionDirectoryCache(stored, cacheData) ELSE stored
  /\ UNCHANGED <<platform, now, cacheData, cacheLoaded, syncInFlight,
                 lastSyncAttemptAt, persistQueue, task, prevSync, everMax, evicted,
                 fillNext, lastUpsert, lastRead, eventVars>>

PersistStart(ok) ==
  /\ PersistBody(ok)
  /\ UNCHANGED lastWrite

\* the same step, with the answer of the store observed
PersistLogged(ok) ==
  /\ PersistBody(ok)
  /\ lastWrite' = IF ok THEN "ok" ELSE "failed"

WriteSettles_Throw(result) == IF result = "failed" THEN "rejected" ELSE "fulfilled"

\* lines 146-150: a rejection of setSessionDirectoryCache is caught and
\* logged, the link of the chain is fulfilled either way
WriteSettles(result) == "fulfilled"

\* where a task continues once its awaited write has settled
AfterPersist(rec) ==
  CASE rec.pc = "u_persist" -> Finish(rec, "resolved")
    [] rec.pc = "rs_persist" -> [rec EXCEPT !.pc = "s_then"]
    [] rec.pc = "sq_persist" -> [rec EXCEPT !.pc = "sc_roots", !.stage = 3]
    [] rec.pc = "sc_persist" -> Finish(rec, "resolved")
    [] OTHER -> rec

\* the write settled (a failure is caught and logged, lines 148-150) and
\* the task awaiting it goes on
PersistDone ==
  /\ writing
  /\ IoEvent
  /\ writing' = FALSE
  /\ persistQueue' = Tail(persistQueue)
  /\ task' = [task EXCEPT ![Head(persistQueue)] =
       IF WriteSettles(lastWrite) = "fulfilled"
       THEN AfterPersist(task[Head(persistQueue)])
       ELSE Finish(task[Head(persistQueue)], "rejected")]
  /\ UNCHANGED <<platform, now, stored, cacheData, cacheLoaded, syncInFlight,
                 lastSyncAttemptAt, prevSync, everMax, evicted, fillNext, logVars, eventVars>>

(***************************************************************************)
(* syncSessionDirectoryCache(options) and runSync                          *)
(***************************************************************************)
CooldownBlocks_NoCooldown(force, time, lastAttempt) == FALSE

CooldownBlocks_IgnoreForce(force, time, lastAttempt) ==
  time - lastAttempt < SYNC_COOLDOWN_MS

\* line 484: the cooldown check
CooldownBlocks(force, time, lastAttempt) ==
  ~force /\ time - lastAttempt < SYNC_COOLDOWN_MS

InFlightBlocks_Never(handle) == FALSE

\* line 488: a sync is in flight
InFlightBlocks(handle) == handle # NoTask

SyncOutcome_Rethrow(failed, force) ==
  IF failed /\ force THEN "rejected" ELSE "resolved"

\* lines 496-499: the catch handler swallows the failure of runSync, so the
\* promise handed to the callers resolves
SyncOutcome(failed, force) == "resolved"

\* where the caller of a sync continues: warmup goes on to the sqlite
\* fallback (calling the path API), a direct caller is done
AfterSync(rec, failed) ==
  LET outcome == SyncOutcome(failed, rec.force)
      r == [rec EXCEPT !.rfail = failed]
  IN IF rec.op = "warmup" /\ outcome = "resolved"
     THEN [r EXCEPT !.pc = "sq_roots", !.stage = 2]
     ELSE Finish(r, outcome)

CallSync(t, op, force) ==
  /\ task[t].pc \in {"idle", "done"}
  /\ cacheData' = Loaded
  /\ cacheLoaded' = TRUE
  /\ task' = [task EXCEPT ![t] =
       [IdleTask EXCEPT !.pc = "s_check", !.op = op, !.force = force,
                        !.startedAt = now, !.stage = 1]]
  /\ UNCHANGED <<platform, now, stored, syncInFlight, lastSyncAttemptAt,
                 persistQueue, writing, prevSync, everMax, evicted, fillNext, logVars, eventVars>>

syncSessionDirectoryCache(t, force) == CallSync(t, "sync", force)

warmupSessionDirectoryCache == CallSync(WARM, "warmup", TRUE)

SyncCheck(t) ==
  /\ task[t].pc = "s_check"
  /\ IF CooldownBlocks(task[t].force, now, lastSyncAttemptAt)
     THEN /\ task' = [task EXCEPT ![t] = Finish(@, "resolved")]
          /\ UNCHANGED syncInFlight
     ELSE IF InFlightBlocks(syncInFlight)
          THEN /\ task' = [task EXCEPT ![t].pc = "s_attached"]
               /\ UNCHANGED syncInFlight
          ELSE /\ task' = [task EXCEPT ![t].pc = "rs_load", ![t].issued = TRUE]
               /\ syncInFlight' = t
  /\ UNCHANGED <<platform, now, stored, cacheData, cacheLoaded, lastSyncAttemptAt,
                 persistQueue, writing, prevSync, everMax, evicted, fillNext, logVars, eventVars>>

\* runSync 207-210: the list-sessions request goes out with the parameters
\* built from the watermark
RunSyncRequest(t) ==
  /\ task[t].pc = "rs_load"
  /\ task' = [task EXCEPT ![t].pc = "rs_wait", ![t].params = buildListParams(cacheData)]
  /\ UNCHANGED <<platform, now, stored, cacheData, cacheLoaded, syncInFlight,
                 lastSyncAttemptAt, persistQueue, writing, prevSync,
                 everMax, evicted, fillNext, logVars, eventVars>>

RemoteFailures == {"error", "nodata", "reject"}

\* runSync 212-214: the request failed
RunSyncFail(t, kind) ==
  /\ task[t].pc = "rs_wait"
  /\ IoEvent
  /\ kind \in RemoteFailures
  /\ task' = [task EXCEPT ![t].pc = "s_catch", ![t].rfail = TRUE,
                         ![t].params = NoParams]
  /\ UNCHANGED <<platform, now, stored, cacheData, cacheLoaded, syncInFlight,
                 lastSyncAttemptAt, persistQueue, writing, prevSync,
                 everMax, evicted, fillNext, logVars, eventVars>>

Sessions ==
  [directory : {WA, WAUpper}, updated : TimeStamps]
    \cup {[directory |-> WRoot, updated |-> T_NEW], [directory |-> WA, updated |-> Absent]}

SeqsUpTo(S, n) == UNION {[1..k -> S] : k \in 0..n}

\* session.time?.updated ?? Date.now()
SessionRecords(sessions, time) ==
  [i \in 1..Len(sessions) |->
     Dir(sessions[i].directory,
         IF sessions[i].updated = Absent THEN time ELSE sessions[i].updated)]

\* runSync 216-237: the answer is merged in one synchronous pass
RunSyncResponse(t, sessions) ==
  /\ task[t].pc = "rs_wait"
  /\ IoEvent
  /\ LET r == IngestBatch(platform, cacheData, SessionRecords(sessions, now))
     IN /\ cacheData' = r.data
        /\ IF r.changed
           THEN /\ queuePersist(t)
                /\ task' = [task EXCEPT ![t].pc = "rs_persist", ![t].params = NoParams]
           ELSE /\ task' = [task EXCEPT ![t].pc = "s_then", ![t].params = NoParams]
                /\ UNCHANGED persistQueue
  /\ UNCHANGED <<platform, now, stored, cacheLoaded, syncInFlight,
                 lastSyncAttemptAt, writing, prevSync, everMax, evicted, fillNext, logVars, eventVars>>

\* lines 493-495
SyncThen(t) ==
  /\ task[t].pc = "s_then"
  /\ lastSyncAttemptAt' = now
  /\ task' = [task EXCEPT ![t].pc = "s_finally"]
  /\ UNCHANGED <<platform, now, stored, cacheData, cacheLoaded, syncInFlight,
                 persistQueue, writing, prevSync, everMax, evicted, fillNext, logVars, eventVars>>

AttemptAfterFailure_Recorded(time) == time

\* the attempt time recorded after a failed runSync (line 498)
AttemptAfterFailure(time) == 0

\* lines 496-499
SyncCatch(t) ==
  /\ task[t].pc = "s_catch"
  /\ lastSyncAttemptAt' = AttemptAfterFailure(now)
  /\ task' = [task EXCEPT ![t].pc = "s_finally"]
  /\ UNCHANGED <<platform, now, stored, cacheData, cacheLoaded, syncInFlight,
                 persistQueue, writing, prevSync, everMax, evicted, fillNext, logVars, eventVars>>

ClearedHandle_Kept(handle) == handle

\* line 501: syncInFlight = null
ClearedHandle(handle) == NoTask

\* lines 500-502: the handle is cleared, the promise settles and with it
\* every caller that was handed it
SyncFinally(t) ==
  /\ task[t].pc = "s_finally"
  /\ syncInFlight' = ClearedHandle(syncInFlight)
  /\ task' = [u \in Tasks |->
       IF u = t \/ task[u].pc = "s_attached"
       THEN AfterSync(task[u], task[t].rfail)
       ELSE task[u]]
  /\ prevSync' = [valid |-> TRUE, force |-> task[t].force,
                  startedAt |-> IF task[t].force THEN 0 ELSE task[t].startedAt,
                  rfail |-> task[t].rfail]
  /\ UNCHANGED <<platform, now, stored, cacheData, cacheLoaded, lastSyncAttemptAt,
                 persistQueue, writing, everMax, evicted, fillNext, logVars, eventVars>>

(***************************************************************************)
(* getStorageRootsFromApi: the candidate roots of a fallback               *)
(***************************************************************************)
PathFailures == {"absent", "error", "reject"}

EndStage_Stop(rec) == Finish(rec, "resolved")

\* the fallback that follows in warmup, or the end of warmup
EndStage(rec) ==
  IF rec.stage = 2
  THEN [rec EXCEPT !.pc = "sc_roots", !.stage = 3, !.roots = 0]
  ELSE Finish(rec, "resolved")

StagePc(rec, suffix) ==
  IF rec.stage = 2
  THEN (CASE suffix = "roots" -> "sq_roots" [] suffix = "root" -> "sq_root"
          [] OTHER -> "sq_persist")
  ELSE (CASE suffix = "roots" -> "sc_roots" [] suffix = "root" -> "sc_root"
          [] OTHER -> "sc_persist")

\* warmup's catch blocks (lines 470-472, 476-478) log the error of a fallback
\* and warmup goes on after the try statement
WarmupCatch_Rethrow(rec) == Finish(rec, "rejected")

WarmupCatch(rec) == EndStage(rec)

\* the path API answered with n candidate roots
PathInfo(t, n) ==
  /\ task[t].pc \in {"sq_roots", "sc_roots"}
  /\ IoEvent
  /\ task' = [task EXCEPT ![t] =
       IF n = 0 THEN EndStage(task[t])
       ELSE [task[t] EXCEPT !.pc = StagePc(task[t], "root"), !.roots = n]]
  /\ UNCHANGED <<platform, now, stored, cacheData, cacheLoaded, syncInFlight,
                 lastSyncAttemptAt, persistQueue, writing, prevSync,
                 everMax, evicted, fillNext, logVars, eventVars>>

\* no path capability or an error answer give no roots; a rejection is
\* thrown and caught by warmup (lines 470, 476)
PathFail(t, kind) ==
  /\ task[t].pc \in {"sq_roots", "sc_roots"}
  /\ IoEvent
  /\ kind \in PathFailures
  /\ task' = [task EXCEPT ![t] =
       IF kind = "reject" THEN WarmupCatch(task[t]) ELSE EndStage(task[t])]
  /\ UNCHANGED <<platform, now, stored, cacheData, cacheLoaded, syncInFlight,
                 lastSyncAttemptAt, persistQueue, writing, prevSync,
                 everMax, evicted, fillNext, logVars, eventVars>>

\* this root gave nothing: the loop moves to the next root
NextRoot(rec) ==
  IF rec.roots = 1 THEN EndStage(rec) ELSE [rec EXCEPT !.roots = @ - 1]

(***************************************************************************)
(* ingestFromSqliteSessionDatabase                                         *)
(***************************************************************************)
SqliteSkips == {"noaccess", "unreadable", "empty"}

\* lines 349-358: no database file, a database that cannot be read (null)
\* or one whose query returns no row: the loop goes on with the next root
SqliteSkipBody(t, kind) ==
  /\ task[t].pc = "sq_root"
  /\ IoEvent
  /\ kind \in SqliteSkips
  /\ task' = [task EXCEPT ![t] = NextRoot(@)]
  /\ UNCHANGED <<platform, now, stored, cacheData, cacheLoaded, syncInFlight,
                 lastSyncAttemptAt, persistQueue, writing, prevSync,
                 everMax, evicted, fillNext, eventVars>>

SqliteSkipRoot(t, kind) ==
  /\ SqliteSkipBody(t, kind)
  /\ UNCHANGED logVars

\* the same step, with the answer of the root observed
SqliteSkipLogged(t, kind) ==
  /\ SqliteSkipBody(t, kind)
  /\ lastRead' = [kind |-> kind, snapshot |-> cacheData, value |-> <<>>]
  /\ UNCHANGED <<lastUpsert, lastWrite>>

\* querySessionDirectoriesFromSqlite: one row per directory (GROUP BY),
\* newest first (ORDER BY updated DESC); every row carries a time
SqliteRows ==
  {rows \in SeqsUpTo([worktree : {WA, WAUpper, WBlank}, lastUpdated : TimeStamps], MaxBatch) :
     /\ rows # <<>>
     /\ \A i, j \in 1..Len(rows) : i < j =>
          /\ rows[i].worktree # rows[j].worktree
          /\ rows[i].lastUpdated >= rows[j].lastUpdated}

AfterRows_NextRoot(rec) == NextRoot(rec)

\* line 386: return, whatever roots are left
AfterRows(rec) == EndStage(rec)

\* lines 360-386
SqliteIngestBody(t, rows) ==
  /\ task[t].pc = "sq_root"
  /\ IoEvent
  /\ LET r == IngestBatch(platform, cacheData, rows)
     IN /\ cacheData' = r.data
        /\ IF r.changed
           THEN /\ queuePersist(t)
                /\ task' = [task EXCEPT ![t].pc = "sq_persist", ![t].roots = 0]
           ELSE /\ task' = [task EXCEPT ![t] = AfterRows(@)]
                /\ UNCHANGED persistQueue
  /\ UNCHANGED <<platform, now, stored, cacheLoaded, syncInFlight,
                 lastSyncAttemptAt, writing, prevSync, everMax, evicted, fillNext, eventVars>>

SqliteIngest(t, rows) ==
  /\ SqliteIngestBody(t, rows)
  /\ UNCHANGED logVars

\* the same step, with the rows of the root observed
SqliteIngestLogged(t, rows) ==
  /\ SqliteIngestBody(t, rows)
  /\ lastRead' = [kind |-> "rows", snapshot |-> cacheData, value |-> rows]
  /\ UNCHANGED <<lastUpsert, lastWrite>>

(***************************************************************************)
(* ingestFromGlobalSessionStorage                                          *)
(***************************************************************************)
\* readdir or a stat failed: try the next candidate (line 459)
ScanSkipRoot(t) ==
  /\ task[t].pc = "sc_root"
  /\ IoEvent
  /\ task' = [task EXCEPT ![t] = NextRoot(@)]
  /\ UNCHANGED <<platform, now, stored, cacheData, cacheLoaded, syncInFlight,
                 lastSyncAttemptAt, persistQueue, writing, prevSync,
                 everMax, evicted, fillNext, logVars, eventVars>>

\* lines 445-458, run with the locals changed and maxUpdated of the scan
ScanTail(t, dirs, changed, maxUpdated) ==
  LET r == AdvanceWatermark(cacheData, dirs, changed, maxUpdated)
  IN /\ cacheData' = r.data
     /\ IF r.changed
        THEN /\ queuePersist(t)
             /\ task' = [task EXCEPT ![t] =
                  [@ EXCEPT !.pc = "sc_persist", !.roots = 0, !.files = 0,
                            !.maxUpdated = 0, !.changed = FALSE]]
        ELSE /\ task' = [task EXCEPT ![t] = EndStage(@)]
             /\ UNCHANGED persistQueue

\* lines 400-418: the directory is listed, n files are kept; the locals
\* changed and maxUpdated are initialised before the first file is read
ScanList(t, n) ==
  /\ task[t].pc = "sc_root"
  /\ IoEvent
  /\ n \in 0..MaxFiles
  /\ IF n = 0
     THEN ScanTail(t, cacheData.directories, FALSE, cacheData.lastSyncedUpdatedAt)
     ELSE /\ task' = [task EXCEPT ![t] =
               [@ EXCEPT !.pc = "sc_read", !.files = n, !.changed = FALSE,
                         !.maxUpdated = cacheData.lastSyncedUpdatedAt]]
          /\ UNCHANGED <<cacheData, persistQueue>>
  /\ UNCHANGED <<platform, now, stored, cacheLoaded, syncInFlight,
                 lastSyncAttemptAt, writing, prevSync, everMax, evicted, fillNext, logVars, eventVars>>

\* what reading one session file gives: unreadable or malformed JSON, or a
\* session with its directory and time.updated, and the file's mtime
Files == [kind : {"malformed", "session"}, directory : {WA, WAUpper, WEmpty},
          updated : TimeStamps \cup {Absent}, mtime : {T_OLD}]

\* lines 421-442 for one file, then the tail after the last file
ScanFile(t, file) ==
  /\ task[t].pc = "sc_read"
  /\ IoEvent
  /\ LET rec == task[t]
         skip == file.kind = "malformed" \/ file.directory = <<>>
         updated == IF file.updated = Absent THEN file.mtime ELSE file.updated
         up == IF skip THEN [changed |-> FALSE, directories |-> cacheData.directories]
               ELSE upsertDirectory(platform, cacheData.directories, file.directory, updated)
         changed == rec.changed \/ up.changed
         maxUpdated == IF ~skip /\ updated > rec.maxUpdated THEN updated ELSE rec.maxUpdated
     IN IF rec.files = 1
        THEN ScanTail(t, up.directories, changed, maxUpdated)
        ELSE /\ cacheData' = [cacheData EXCEPT !.directories = up.directories]
             /\ task' = [task EXCEPT ![t] =
                  [@ EXCEPT !.files = @ - 1, !.changed = changed,
                            !.maxUpdated = maxUpdated]]
             /\ UNCHANGED persistQueue
  /\ UNCHANGED <<platform, now, stored, cacheLoaded, syncInFlight,
                 lastSyncAttemptAt, writing, prevSync, everMax, evicted, fillNext, logVars, eventVars>>

(***************************************************************************)
(* getCachedSessionDirectories                                             *)
(***************************************************************************)
\* line 509: a copy of every entry, in cache order
CopyDirectories(data) ==
  [i \in 1..Len(data.directories) |->
     [worktree |-> data.directories[i].worktree,
      lastUpdated |-> data.directories[i].lastUpdated]]

getCachedSessionDirectories ==
  /\ cacheData' = Loaded
  /\ cacheLoaded' = TRUE
  /\ lastRead' = [kind |-> "directories", snapshot |-> Loaded,
                  value |-> CopyDirectories(Loaded)]
  /\ UNCHANGED <<platform, now, stored, syncInFlight, lastSyncAttemptAt, persistQueue,
                 writing, task, prevSync, everMax, evicted, fillNext, lastUpsert,
                 lastWrite, eventVars>>

(***************************************************************************)
(* getCachedSessionProjects                                                *)
(***************************************************************************)
\* the first 16 hex digits of the SHA-1 digest of the string: a value that
\* is determined by the string and by nothing else
Sha1Hex16(text) == <<"sha1", text>>

\* lines 201-204
createVirtualProjectId(worktree) == <<"dir_", Sha1Hex16(worktree)>>

ToProjects_FirstId(directories) ==
  [i \in 1..Len(directories) |->
     [id |-> createVirtualProjectId(directories[1].worktree),
      worktree |-> directories[i].worktree,
      name |-> directories[i].worktree,
      lastUpdated |-> directories[i].lastUpdated]]

\* lines 515-520
ToProjects(directories) ==
  [i \in 1..Len(directories) |->
     [id |-> createVirtualProjectId(directories[i].worktree),
      worktree |-> directories[i].worktree,
      name |-> directories[i].worktree,
      lastUpdated |-> directories[i].lastUpdated]]

getCachedSessionProjects ==
  /\ cacheData' = Loaded
  /\ cacheLoaded' = TRUE
  /\ lastRead' = [kind |-> "projects", snapshot |-> Loaded,
                  value |-> ToProjects(CopyDirectories(Loaded))]
  /\ UNCHANGED <<platform, now, stored, syncInFlight, lastSyncAttemptAt, persistQueue,
                 writing, task, prevSync, everMax, evicted, fillNext, lastUpsert,
                 lastWrite, eventVars>>

(***************************************************************************)
(* getProjects (project/manager.ts)                                        *)
(***************************************************************************)
\* lines 39-45
projectWorktreeKey(plat, worktree) ==
  IF plat = "win32" THEN toLowerCase(worktree) ELSE worktree

\* lines 54-59: name falls back to the worktree, time.updated to 0
ApiProject(project) ==
  [id |-> project.id,
   worktree |-> project.worktree,
   name |-> IF project.name # <<>> THEN project.name ELSE project.worktree,
   lastUpdated |-> IF project.updated = Absent THEN 0 ELSE project.updated]

\* line 65, mergedByWorktree.set(key, apiProject): a known key keeps its
\* position in the Map and takes the new value
RECURSIVE MergeApi(_, _, _)
MergeApi(plat, merged, item) ==
  IF merged = <<>> THEN <<item>>
  ELSE IF projectWorktreeKey(plat, Head(merged).worktree)
            = projectWorktreeKey(plat, item.worktree)
       THEN <<item>> \o Tail(merged)
       ELSE <<Head(merged)>> \o MergeApi(plat, Tail(merged), item)

RECURSIVE MergeCached_Overwrite(_, _, _)
MergeCached_Overwrite(plat, merged, item) ==
  IF merged = <<>> THEN <<item>>
  ELSE IF projectWorktreeKey(plat, Head(merged).worktree)
            = projectWorktreeKey(plat, item.worktree)
       THEN <<item>> \o Tail(merged)
       ELSE <<Head(merged)>> \o MergeCached_Overwrite(plat, Tail(merged), item)

\* lines 68-85: a cached project raises the lastUpdated of the project that
\* has its key, or is added under its key
RECURSIVE MergeCached(_, _, _)
MergeCached(plat, merged, item) ==
  IF merged = <<>> THEN <<item>>
  ELSE IF projectWorktreeKey(plat, Head(merged).worktree)
            = projectWorktreeKey(plat, item.worktree)
       THEN IF item.lastUpdated > Head(merged).lastUpdated
            THEN <<[Head(merged) EXCEPT !.lastUpdated = item.lastUpdated]>> \o Tail(merged)
            ELSE merged
       ELSE <<Head(merged)>> \o MergeCached(plat, Tail(merged), item)

RECURSIVE MergeAll(_, _, _, _)
MergeAll(plat, apiProjects, cachedProjects, merged) ==
  IF apiProjects # <<>>
  THEN MergeAll(plat, Tail(apiProjects), cachedProjects,
                MergeApi(plat, merged, Head(apiProjects)))
  ELSE IF cachedProjects # <<>>
  THEN MergeAll(plat, apiProjects, Tail(cachedProjects),
                MergeCached(plat, merged, Head(cachedProjects)))
  ELSE merged

\* lines 91-102: linked git worktrees are hidden, lastUpdated is dropped
RECURSIVE VisibleProjects(_, _)
VisibleProjects(projectList, linked) ==
  IF projectList = <<>> THEN <<>>
  ELSE (IF Head(projectList).worktree \in linked THEN <<>>
        ELSE <<[id |-> Head(projectList).id,
                worktree |-> Head(projectList).worktree,
                name |-> Head(projectList).name]>>)
       \o VisibleProjects(Tail(projectList), linked)

\* lines 54-102
MergeProjects(plat, projects, cachedProjects, linked) ==
  LET apiProjects == [i \in 1..Len(projects) |-> ApiProject(projects[i])]
      projectList == SortDesc(MergeAll(plat, apiProjects, cachedProjects, <<>>), <<>>)
  IN VisibleProjects(projectList, linked)

ApiAnswers == {"data", "error", "nodata"}

\* getProjects from the answer of project.list on; linked are the worktrees
\* whose .git file points into a .git/worktrees directory
getProjects(kind, projects, linked) ==
  /\ kind \in ApiAnswers
  /\ kind # "data" => projects = <<>> /\ linked = {}
  /\ cacheData' = IF kind = "data" THEN Loaded ELSE cacheData
  /\ cacheLoaded' = (cacheLoaded \/ kind = "data")
  /\ lastRead' =
       IF kind = "data"
       THEN [kind |-> "merged",
             snapshot |-> [projects |-> projects,
                           cached |-> ToProjects(CopyDirectories(Loaded)),
                           linked |-> linked],
             value |-> MergeProjects(platform, projects,
                                     ToProjects(CopyDirectories(Loaded)), linked)]
       ELSE [kind |-> "rejected",
             snapshot |-> [projects |-> <<>>, cached |-> <<>>, linked |-> {}],
             value |-> <<>>]
  /\ UNCHANGED <<platform, now, stored, syncInFlight, lastSyncAttemptAt, persistQueue,
                 writing, task, prevSync, everMax, evicted, fillNext, lastUpsert,
                 lastWrite, eventVars>>

(***************************************************************************)
(* Environment: the clock and the test reset                               *)
(***************************************************************************)
Tick ==
  /\ now < EndTime
  /\ IoEvent
  /\ now' = now + TickMs
  /\ UNCHANGED <<platform, stored, cacheData, cacheLoaded, syncInFlight,
                 lastSyncAttemptAt, persistQueue, writing, task,
                 prevSync, everMax, evicted, fillNext, logVars, eventVars>>

Quiescent == (\A t \in Tasks : task[t].pc \in {"idle", "done"}) /\ persistQueue = <<>>

\* __resetSessionDirectoryCacheForTests, called between tests (beforeEach)
ResetForTests ==
  /\ Quiescent
  /\ IoEvent
  /\ cacheLoaded
  /\ cacheData' = createEmptyCacheData
  /\ cacheLoaded' = FALSE
  /\ syncInFlight' = NoTask
  /\ lastSyncAttemptAt' = 0
  /\ persistQueue' = <<>>
  /\ prevSync' = NoPrev
  /\ UNCHANGED <<platform, now, stored, writing, task, everMax, evicted, fillNext, logVars, eventVars>>

(***************************************************************************)
(* subscribeToEvents(directory, callback) and stopEventListening()         *)
(***************************************************************************)
Listener == <<eventStream, eventCallback, isListening, activeDirectory,
              streamAbortController>>

AlreadyListening_Never(listening, active, directory) == FALSE

\* line 14: a listener for this directory is running
AlreadyListening(listening, active, directory) == listening /\ active = directory

Abort_Nothing(signals, controller) == signals

\* streamAbortController?.abort()
Abort(signals, controller) ==
  IF controller = NoSub THEN signals ELSE [signals EXCEPT ![controller] = TRUE]

\* lines 13-35: up to the event.subscribe request
subscribeToEvents(c, directory) ==
  /\ sub[c].pc = "idle"
  /\ IF AlreadyListening(isListening, activeDirectory, directory)
     THEN /\ sub' = [sub EXCEPT ![c] =
                 [IdleSub EXCEPT !.pc = "done", !.directory = directory,
                                 !.outcome = "resolved", !.dup = TRUE]]
          /\ UNCHANGED <<eventStream, eventCallback, isListening, activeDirectory,
                         streamAbortController, aborted, subscribed>>
     ELSE /\ aborted' = IF isListening THEN Abort(aborted, streamAbortController)
                                       ELSE aborted
          /\ activeDirectory' = directory
          /\ eventCallback' = c
          /\ isListening' = TRUE
          /\ streamAbortController' = c
          /\ subscribed' = Append(subscribed, [directory |-> directory, signal |-> c])
          /\ sub' = [sub EXCEPT ![c] = [IdleSub EXCEPT !.pc = "subscribing",
                                                       !.directory = directory]]
          /\ UNCHANGED eventStream
  /\ UNCHANGED cacheVars

\* lines 74-86: the finally block of call c, and the call settles
Finally(c, outcome) ==
  /\ sub' = [sub EXCEPT ![c].pc = "done", ![c].outcome = outcome]
  /\ IF streamAbortController = c
     THEN /\ streamAbortController' = NoSub
          /\ eventStream' = NoSub
          /\ eventCallback' = NoSub
          /\ isListening' = FALSE
          /\ activeDirectory' = NoDirectory
     ELSE UNCHANGED <<eventStream, eventCallback, isListening, activeDirectory,
                      streamAbortController>>

\* lines 63-73, then the finally block, which finds streamAbortController
\* null after a failure that was not an abort
Catch(c) ==
  IF aborted[c]
  THEN Finally(c, "resolved")
  ELSE /\ sub' = [sub EXCEPT ![c].pc = "done", ![c].outcome = "rejected"]
       /\ isListening' = FALSE
       /\ activeDirectory' = NoDirectory
       /\ streamAbortController' = NoSub
       /\ UNCHANGED <<eventStream, eventCallback>>

SubscribeResults == {"stream", "nostream", "reject"}

\* lines 35-44: the event.subscribe request is answered
SubscribeResult(c, kind) ==
  /\ sub[c].pc = "subscribing"
  /\ kind \in SubscribeResults
  /\ IF kind = "stream"
     THEN /\ eventStream' = c
          /\ sub' = [sub EXCEPT ![c].pc = "streaming"]
          /\ UNCHANGED <<eventCallback, isListening, activeDirectory,
                         streamAbortController>>
     ELSE Catch(c)
  /\ UNCHANGED <<aborted, subscribed, cacheVars>>

\* lines 46-54: the stream yields an event
StreamEvent(c) ==
  /\ sub[c].pc = "streaming"
  /\ IF ~isListening \/ activeDirectory # sub[c].directory
     THEN Finally(c, "resolved")
     ELSE /\ sub' = [sub EXCEPT ![c].pc = "yielded"]
          /\ UNCHANGED <<eventStream, eventCallback, isListening, activeDirectory,
                         streamAbortController>>
  /\ UNCHANGED <<aborted, subscribed, cacheVars>>

\* lines 54-61: after the setImmediate yield the event is handed to the
\* callback registered at that moment (forwarded keeps whose it was)
Deliver(c) ==
  /\ sub[c].pc = "yielded"
  /\ sub' = [sub EXCEPT ![c].pc = "streaming",
                        ![c].forwarded = IF eventCallback # NoSub THEN eventCallback ELSE @]
  /\ UNCHANGED <<eventStream, eventCallback, isListening, activeDirectory,
                 streamAbortController, aborted, subscribed, cacheVars>>

\* the stream is exhausted: the loop ends
StreamEnd(c) ==
  /\ sub[c].pc = "streaming"
  /\ Finally(c, "resolved")
  /\ UNCHANGED <<aborted, subscribed, cacheVars>>

\* the stream throws
StreamError(c) ==
  /\ sub[c].pc = "streaming"
  /\ Catch(c)
  /\ UNCHANGED <<aborted, subscribed, cacheVars>>

\* lines 89-97
stopEventListening ==
  /\ aborted' = Abort(aborted, streamAbortController)
  /\ streamAbortController' = NoSub
  /\ isListening' = FALSE
  /\ eventCallback' = NoSub
  /\ eventStream' = NoSub
  /\ activeDirectory' = NoDirectory
  /\ UNCHANGED <<sub, subscribed, cacheVars>>

NextEvents ==
  \/ \E c \in Subs, directory \in EventDirs : subscribeToEvents(c, directory)
  \/ \E c \in Subs, kind \in SubscribeResults : SubscribeResult(c, kind)
  \/ \E c \in Subs : StreamEvent(c)
  \/ \E c \in Subs : Deliver(c)
  \/ \E c \in Subs : StreamEnd(c)
  \/ \E c \in Subs : StreamError(c)
  \/ stopEventListening

InitEvents0 == Init /\ stored = AbsentBlob /\ platform = "linux"

SpecEvents == InitEvents0 /\ [][NextEvents]_vars

\* C20: while a listener for directory D is running, a further
\* subscribeToEvents(D, ...) call resolves at once, issues no event.subscribe
\* request and leaves the listener state (stream, callback, listening flag,
\* active directory, controller) and every abort signal as they are.
C20_NoDuplicateSubscription ==
  [][\A c \in Subs :
       (sub[c].pc = "idle" /\ sub'[c].pc # "idle"
          /\ isListening /\ activeDirectory = sub'[c].directory)
         => /\ subscribed' = subscribed
            /\ Listener' = Listener
            /\ aborted' = aborted
            /\ sub'[c].pc = "done" /\ sub'[c].outcome = "resolved"]_vars

C20_Witness ==
  \E c, e \in Subs :
     /\ sub[c].pc = "streaming" /\ ~aborted[c]
     /\ sub[e].pc = "done" /\ sub[e].dup /\ sub[e].directory = sub[c].directory
     /\ isListening /\ streamAbortController = c /\ eventStream = c
     /\ Len(subscribed) = 1

(***************************************************************************)
(* Spec: warmup (forced primary sync, sqlite fallback, raw file scan)      *)
(* interleaved with upsertSessionDirectory calls and the persistence chain *)
(***************************************************************************)
Next ==
  \/ \E w \in Worktrees, u \in TimeStamps \cup {Absent} : upsertSessionDirectory(w, u)
  \/ \E ok \in BOOLEAN : PersistStart(ok)
  \/ PersistDone
  \/ warmupSessionDirectoryCache
  \/ SyncCheck(WARM)
  \/ RunSyncRequest(WARM)
  \/ \E kind \in RemoteFailures : RunSyncFail(WARM, kind)
  \/ \E sessions \in SeqsUpTo(Sessions, MaxBatch) : RunSyncResponse(WARM, sessions)
  \/ SyncThen(WARM)
  \/ SyncCatch(WARM)
  \/ SyncFinally(WARM)
  \/ \E n \in 0..MaxRoots : PathInfo(WARM, n)
  \/ \E kind \in PathFailures : PathFail(WARM, kind)
  \/ \E kind \in SqliteSkips : SqliteSkipRoot(WARM, kind)
  \/ \E rows \in SqliteRows : SqliteIngest(WARM, rows)
  \/ ScanSkipRoot(WARM)
  \/ \E n \in 0..MaxFiles : ScanList(WARM, n)
  \/ \E file \in Files : ScanFile(WARM, file)
  \/ ResetForTests

Spec == Init /\ [][Next]_vars

(***************************************************************************)
(* SpecSync: concurrent callers of syncSessionDirectoryCache, forced and   *)
(* not, and a warmup whose fallbacks find no storage root                  *)
(***************************************************************************)
SyncBatches == {<<>>, <<[directory |-> WA, updated |-> T_NEW]>>}

NextSync ==
  \/ \E t \in SyncCallers, force \in BOOLEAN : syncSessionDirectoryCache(t, force)
  \/ warmupSessionDirectoryCache
  \/ \E t \in SyncTasks : SyncCheck(t)
  \/ \E t \in SyncTasks : RunSyncRequest(t)
  \/ \E t \in SyncTasks, kind \in RemoteFailures : RunSyncFail(t, kind)
  \/ \E t \in SyncTasks, sessions \in SyncBatches : RunSyncResponse(t, sessions)
  \/ \E t \in SyncTasks : SyncThen(t)
  \/ \E t \in SyncTasks : SyncCatch(t)
  \/ \E t \in SyncTasks : SyncFinally(t)
  \/ \E kind \in PathFailures : PathFail(WARM, kind)
  \/ PersistStart(TRUE)
  \/ PersistDone
  \/ Tick

InitSync == Init /\ stored = AbsentBlob /\ platform = "linux"

SpecSync == InitSync /\ [][NextSync]_vars

(***************************************************************************)
(* Properties of the sync engine (SpecSync)                                *)
(***************************************************************************)
OwnerPcs == {"rs_load", "rs_wait", "rs_persist", "s_then", "s_catch", "s_finally"}
Owners == {t \in Tasks : task[t].pc \in OwnerPcs}
Outstanding == {t \in Tasks : task[t].pc = "rs_wait"}
Attached == {t \in Tasks : task[t].pc = "s_attached"}

\* the step in which call t runs lines 484-504
Checked(t) == task[t].pc = "s_check" /\ task'[t].pc # "s_check"
\* ... and starts a runSync of its own
Issues(t) == Checked(t) /\ task'[t].pc = "rs_load"
\* the promise of owner t settles in this step
Settles(t) == task[t].pc = "s_finally" /\ task'[t].pc # "s_finally"
\* no other sync call is in progress
Alone(t) == \A u \in SyncTasks \ {t} : task[u].pc \in {"idle", "done"}

C2_Inv ==
  /\ Cardinality(Outstanding) <= 1
  /\ Cardinality(Owners) <= 1
  /\ Attached # {} => syncInFlight \in Owners
  /\ \A a \in Attached : ~task[a].issued

C2_Step ==
  /\ \A t \in Tasks :
       (Checked(t) /\ ~CooldownBlocks(task[t].force, now, lastSyncAttemptAt)
          /\ syncInFlight # NoTask)
         => (task'[t].pc = "s_attached" /\ Outstanding' = Outstanding)
  /\ \A t \in Tasks :
       (task[t].pc = "s_attached" /\ task'[t].pc # "s_attached")
         => Settles(syncInFlight)
  /\ \A o \in Tasks : Settles(o) => Attached' = {}

\* C2: single-flight. At most one list-sessions request is outstanding and
\* at most one runSync is in progress; a sync call that passes the cooldown
\* check while a sync is in flight issues no request, attaches to the
\* in-flight operation and settles in the step in which that one settles.
C2_SingleFlight == [](C2_Inv) /\ [][C2_Step]_vars

C2_Witness ==
  \E o, a \in SyncCallers :
     /\ task[o].pc = "rs_wait" /\ ~task[o].force
     /\ task[a].pc = "s_attached" /\ ~task[a].force

Settled(t) == task[t].force /\ task[t].rfail /\ task[t].pc \notin {"s_catch", "s_finally"}

Catches(t) == task[t].pc = "s_catch" /\ task'[t].pc = "s_finally"

PrevNonForced == prevSync.valid /\ ~prevSync.force
WithinCooldownOfPrev == now - prevSync.startedAt < SYNC_COOLDOWN_MS

\* C4 as claimed: a failed non-forced sync resolves, leaves the attempt
\* time at the time of the attempt, and so a further non-forced sync less
\* than 60 000 ms later issues no request.
C4_FailureKeepsCooldown ==
  [][/\ \A t \in SyncTasks :
          (Catches(t) /\ ~task[t].force) =>
             (lastSyncAttemptAt' >= task[t].startedAt /\ lastSyncAttemptAt' <= now)
     /\ \A b \in SyncTasks :
          (Checked(b) /\ ~task[b].force /\ Alone(b) /\ PrevNonForced
             /\ prevSync.rfail /\ WithinCooldownOfPrev) => ~Issues(b)]_vars

\* C4 as amended: a failed non-forced sync resolves and resets the attempt
\* time to 0, so a further non-forced sync less than 60 000 ms later (no
\* other sync running) issues a request of its own.
C4_FailureResetsCooldown ==
  [][/\ \A t \in SyncTasks :
          (Catches(t) /\ ~task[t].force) => lastSyncAttemptAt' = 0
     /\ \A t \in SyncTasks :
          (Settles(t) /\ ~task[t].force /\ task[t].rfail) =>
             (task'[t].pc = "done" /\ task'[t].outcome = "resolved")
     /\ \A b \in SyncTasks :
          (Checked(b) /\ ~task[b].force /\ Alone(b) /\ PrevNonForced
             /\ prevSync.rfail /\ WithinCooldownOfPrev) => Issues(b)]_vars

C4_Witness ==
  \E b \in SyncCallers :
     /\ task[b].pc = "rs_wait" /\ ~task[b].force /\ Alone(b)
     /\ PrevNonForced /\ prevSync.rfail
     /\ now > prevSync.startedAt /\ WithinCooldownOfPrev

\* C5: when a sync whose request failed settles, the in-flight handle is
\* cleared and the attempt time is 0, and the next sync call (forced or
\* not, no other sync running) starts a request of its own.
C5_FailureDoesNotBlock ==
  [][/\ \A t \in SyncTasks :
          (Settles(t) /\ task[t].rfail) =>
             (syncInFlight' = NoTask /\ lastSyncAttemptAt' = 0)
     /\ \A b \in SyncTasks :
          (Checked(b) /\ Alone(b) /\ prevSync.valid /\ prevSync.rfail) => Issues(b)]_vars

C5_Witness ==
  \E b \in SyncCallers :
     /\ task[b].pc = "rs_wait" /\ Alone(b)
     /\ prevSync.valid /\ prevSync.rfail /\ ~prevSync.force
     /\ task[b].startedAt = prevSync.startedAt

\* C6 as claimed: of two non-forced sync calls made one after the other
\* less than 60 000 ms apart, the second issues no request, whatever the
\* first request returned.
C6_CooldownAlways ==
  [][\A b \in SyncTasks :
       (Checked(b) /\ ~task[b].force /\ Alone(b) /\ PrevNonForced
          /\ WithinCooldownOfPrev) => ~Issues(b)]_vars

\* C6 as amended: ... the second issues no request when the first request
\* succeeded.
C6_CooldownAfterSuccess ==
  [][\A b \in SyncTasks :
       (Checked(b) /\ ~task[b].force /\ Alone(b) /\ PrevNonForced
          /\ ~prevSync.rfail /\ WithinCooldownOfPrev)
         => (~Issues(b) /\ task'[b].pc = "done" /\ ~task'[b].issued
               /\ Outstanding' = {})]_vars

C6_Witness ==
  \E b \in SyncCallers :
     /\ task[b].pc = "done" /\ ~task[b].force /\ ~task[b].issued /\ Alone(b)
     /\ PrevNonForced /\ ~prevSync.rfail
     /\ now > prevSync.startedAt /\ WithinCooldownOfPrev

\* C7 as claimed: a forced sync call always starts a request of its own.
C7_ForcedAlwaysIssues ==
  [][\A t \in SyncTasks : (Checked(t) /\ task[t].force) => Issues(t)]_vars

\* C7 as amended: a forced sync call is never stopped by the cooldown: it
\* starts a request of its own when no sync is in flight, whatever the time
\* since the last attempt, and attaches to the sync in flight otherwise.
C7_ForcedIgnoresCooldown ==
  [][\A t \in SyncTasks :
       (Checked(t) /\ task[t].force) =>
          IF syncInFlight = NoTask THEN Issues(t) ELSE task'[t].pc = "s_attached"]_vars

C7_Witness ==
  \E t \in SyncCallers :
     /\ task[t].pc = "rs_wait" /\ task[t].force
     /\ lastSyncAttemptAt > 0 /\ now - lastSyncAttemptAt < SYNC_COOLDOWN_MS

(***************************************************************************)
(* SpecUpsert: upsertSessionDirectory calls one after the other, starting  *)
(* from an empty cache; the filler directories arrive in a fixed order     *)
(***************************************************************************)
T_LOW == FillerStamp(1) + FillerStep \div 2   \* newer than the first filler only
UpsertStamps == TimeStamps \cup {T_LOW, Absent}

Keys(dirs) == {worktreeKey(platform, dirs[i].worktree) : i \in 1..Len(dirs)}

Larger(a, b) == IF a > b THEN a ELSE b

UpsertTracked(worktree, stamp) ==
  LET lastUpdated == IF stamp = Absent THEN now ELSE stamp
  IN /\ UpsertBody(worktree, lastUpdated)
     /\ everMax' =
          IF isValidWorktree(worktree)
          THEN [everMax EXCEPT ![worktreeKey(platform, trim(worktree))] =
                  Larger(@, lastUpdated)]
          ELSE everMax
     /\ evicted' = evicted \cup (Keys(Loaded.directories) \ Keys(cacheData'.directories))
     /\ UNCHANGED lastUpsert

UpsertFree(worktree, stamp) ==
  /\ UpsertTracked(worktree, stamp)
  /\ UNCHANGED fillNext

UpsertFiller ==
  /\ fillNext <= NumFillers
  /\ UpsertTracked(Filler(fillNext), FillerStamp(fillNext))
  /\ fillNext' = fillNext + 1

NextUpsert ==
  \/ \E w \in Worktrees, u \in UpsertStamps : UpsertFree(w, u)
  \/ UpsertFiller
  \/ \E ok \in BOOLEAN : PersistStart(ok)
  \/ PersistDone

InitUpsert == Init /\ stored = AbsentBlob

SpecUpsert == InitUpsert /\ [][NextUpsert]_vars

(***************************************************************************)
(* Properties of the cache data                                            *)
(***************************************************************************)
Directories == cacheData.directories
Watermark == cacheData.lastSyncedUpdatedAt

\* C1 as claimed: between a load and a reset the watermark
\* lastSyncedUpdatedAt never decreases, whatever the interleaving of sync,
\* fallbacks and upsertSessionDirectory calls.
C1_WatermarkMonotone ==
  [][(cacheLoaded /\ cacheLoaded') =>
        cacheData'.lastSyncedUpdatedAt >= cacheData.lastSyncedUpdatedAt]_vars

\* the identity key, written out: lower-cased on win32
IdentityKey(worktree) ==
  IF platform = "win32"
  THEN [i \in 1..Len(worktree) |->
          IF worktree[i] = "A" THEN "a" ELSE worktree[i]]
  ELSE worktree

\* C8: the cached list never has more than 10 entries and no two entries
\* have the same identity key.
C8_CapAndUniqueKeys ==
  /\ Len(Directories) <= MAX_CACHED_DIRECTORIES
  /\ \A i, j \in 1..Len(Directories) :
       i # j => IdentityKey(Directories[i].worktree) # IdentityKey(Directories[j].worktree)

C8_Witness ==
  /\ platform = "win32"
  /\ Len(Directories) = MAX_CACHED_DIRECTORIES
  /\ \E i \in 1..Len(Directories) :
       Directories[i].worktree = WAUpper /\ Directories[i].lastUpdated = T_NEW
  /\ task[WARM].pc = "done" /\ task[UPS].pc = "done"

\* C9 as claimed: the cached list is sorted strictly descending by
\* lastUpdated.
C9_StrictlyDescending ==
  \A i \in 1..(Len(Directories) - 1) :
     Directories[i].lastUpdated > Directories[i + 1].lastUpdated

\* C9 as amended: the cached list is sorted descending by lastUpdated, and
\* entries of different directories may carry the same lastUpdated.
C9_Descending ==
  \A i \in 1..(Len(Directories) - 1) :
     Directories[i].lastUpdated >= Directories[i + 1].lastUpdated

C9_Witness ==
  /\ Len(Directories) = MAX_CACHED_DIRECTORIES
  /\ \E i \in 1..(Len(Directories) - 1) :
       /\ Directories[i].lastUpdated = Directories[i + 1].lastUpdated
       /\ Directories[i].worktree = WAUpper

\* C10: starting from an empty cache, every cached entry carries the
\* largest timestamp ever upserted for its identity key.
C10_StoredIsMaximum ==
  \A i \in 1..Len(Directories) :
     Directories[i].lastUpdated = everMax[worktreeKey(platform, Directories[i].worktree)]

C10_Witness ==
  \E i \in 1..Len(Directories) :
     /\ worktreeKey(platform, Directories[i].worktree) \in evicted
     /\ Directories[i].worktree = WAUpper

(***************************************************************************)
(* SpecCalls: upsertSessionDirectory calls with every kind of worktree,    *)
(* each observed in lastUpsert.                                            *)
(* SpecInvalid: calls with an empty, blank or root worktree interleaved    *)
(* with a warmup whose remote answer, sqlite rows and session files carry  *)
(* such directories.                                                       *)
(***************************************************************************)
UpsertLogged(worktree, stamp) ==
  /\ UpsertBody(worktree, IF stamp = Absent THEN now ELSE stamp)
  /\ lastUpsert' =
       [worktree |-> worktree, stamp |-> stamp, called |-> TRUE,
        again |-> /\ lastUpsert.called /\ lastUpsert.worktree = worktree
                  /\ lastUpsert.stamp = stamp /\ lastUpsert.after = cacheData,
        after |-> cacheData']
  /\ UNCHANGED <<everMax, evicted, fillNext>>

WB == <<"/", "b">>
CallWorktrees == Worktrees \cup {WB}

CallSessions ==
  {[directory |-> WRoot, updated |-> T_NEW], [directory |-> WBlank, updated |-> T_NEW],
   [directory |-> WA, updated |-> T_OLD]}
CallBatches == SeqsUpTo(CallSessions, MaxBatch)
CallRows ==
  {<<[worktree |-> WBlank, lastUpdated |-> T_NEW]>>,
   <<[worktree |-> WRootPadded, lastUpdated |-> T_NEW],
     [worktree |-> WAUpper, lastUpdated |-> T_OLD]>>}
CallFiles ==
  [kind : {"session"}, directory : {WEmpty, WRootPadded, WAUpper},
   updated : {T_NEW}, mtime : {T_OLD}]

NextCalls ==
  \/ \E w \in CallWorktrees, u \in TimeStamps \cup {Absent} : UpsertLogged(w, u)
  \/ PersistStart(TRUE)
  \/ PersistDone

SpecCalls == Init /\ [][NextCalls]_vars

InvalidWorktrees == {WRoot, WRootPadded, WBlank, WEmpty}
InvalidStamps == {T_NEW, Absent}

NextInvalid ==
  \/ \E w \in InvalidWorktrees \cup {WA}, u \in InvalidStamps : UpsertLogged(w, u)
  \/ PersistStart(TRUE)
  \/ PersistDone
  \/ warmupSessionDirectoryCache
  \/ SyncCheck(WARM)
  \/ RunSyncRequest(WARM)
  \/ \E sessions \in CallBatches : RunSyncResponse(WARM, sessions)
  \/ SyncThen(WARM)
  \/ SyncFinally(WARM)
  \/ PathInfo(WARM, 1)
  \/ \E rows \in CallRows : SqliteIngest(WARM, rows)
  \/ ScanList(WARM, 1)
  \/ \E file \in CallFiles : ScanFile(WARM, file)

SpecInvalid == Init /\ [][NextInvalid]_vars

(***************************************************************************)
(* Properties of upsertSessionDirectory (SpecInvalid, SpecCalls)           *)
(***************************************************************************)

\* the trimmed form of every worktree of the model, listed
Trimmed(w) ==
  CASE w = WAPadded -> WA
    [] w = WRootPadded -> WRoot
    [] w = WBlank -> WEmpty
    [] OTHER -> w

\* the snapshot a call finds: the loaded one, or the one it loads
Before == IF cacheLoaded THEN cacheData ELSE Loaded

SameSnapshot ==
  /\ cacheData'.directories = Before.directories
  /\ cacheData'.lastSyncedUpdatedAt = Before.lastSyncedUpdatedAt

ResolvesAtOnce ==
  /\ task'[UPS].pc = "done" /\ task'[UPS].outcome = "resolved"
  /\ persistQueue' = persistQueue

\* this step is the call upsertSessionDirectory(w, u)
Upserts(w, u) ==
  /\ task[UPS].pc \in {"idle", "done"}
  /\ lastUpsert'.called /\ lastUpsert'.worktree = w /\ lastUpsert'.stamp = u
  /\ UpsertLogged(w, u)

\* this step is the remote answer, the sqlite rows or the session file
Answers(sessions) == task[WARM].pc = "rs_wait" /\ RunSyncResponse(WARM, sessions)
Ingests(rows) == task[WARM].pc = "sq_root" /\ SqliteIngest(WARM, rows)
Reads(file) == task[WARM].pc = "sc_read" /\ ScanFile(WARM, file)

NoInvalidEntry ==
  \A i \in 1..Len(cacheData.directories) :
     cacheData.directories[i].worktree \notin InvalidWorktrees

AllInvalid(recs) == \A i \in 1..Len(recs) : recs[i] \in InvalidWorktrees

C11_Step ==
  /\ \A w \in InvalidWorktrees, u \in InvalidStamps :
       Upserts(w, u) => (SameSnapshot /\ ResolvesAtOnce)
  /\ \A sessions \in CallBatches :
       (AllInvalid([i \in 1..Len(sessions) |-> sessions[i].directory])
          /\ Answers(sessions))
         => cacheData'.directories = cacheData.directories
  /\ \A rows \in CallRows :
       (AllInvalid([i \in 1..Len(rows) |-> rows[i].worktree]) /\ Ingests(rows))
         => cacheData'.directories = cacheData.directories
  /\ \A file \in CallFiles :
       (file.directory \in InvalidWorktrees /\ Reads(file))
         => cacheData'.directories = cacheData.directories

\* C11: upsertSessionDirectory with an empty, blank or "/" worktree resolves
\* at once, leaves the directory list and the watermark as they were and
\* enqueues no write; a remote session, sqlite row or session file with such
\* a directory adds no entry, and no such entry is ever in the list.
C11_InvalidWorktreeIgnored == [](NoInvalidEntry) /\ [][C11_Step]_vars

C11_Witness ==
  /\ lastUpsert.called /\ lastUpsert.worktree = WRootPadded
  /\ task[UPS].pc = "done" /\ persistQueue = <<>>
  /\ task[WARM].pc = "done" /\ task[WARM].stage = 3
  /\ cacheData.lastSyncedUpdatedAt = T_NEW
  /\ cacheData.directories # <<>>
  /\ lastUpsert.after = cacheData

\* the entry cached under the identity key of w, if any
Cached(dirs, w) ==
  {i \in 1..Len(dirs) : IdentityKey(dirs[i].worktree) = IdentityKey(Trimmed(w))}

\* C12: an upsertSessionDirectory call whose identity key is cached with a
\* lastUpdated at or above the incoming timestamp resolves at once, leaves
\* the directory list (entries, casing, order) and the watermark unchanged
\* and enqueues no write.
C12_OlderUpsertIsNoOp ==
  [][\A w \in CallWorktrees \ InvalidWorktrees, u \in TimeStamps \cup {Absent} :
       (Upserts(w, u)
          /\ \E i \in Cached(Before.directories, w) :
               Before.directories[i].lastUpdated >= (IF u = Absent THEN now ELSE u))
         => (SameSnapshot /\ ResolvesAtOnce)]_vars

C12_Witness ==
  /\ platform = "win32"
  /\ lastUpsert.called /\ lastUpsert.worktree = WAUpper /\ lastUpsert.stamp = T_OLD
  /\ lastUpsert.after = cacheData
  /\ task[UPS].pc = "done" /\ persistQueue = <<>>
  /\ \E i \in 1..Len(cacheData.directories) :
       /\ cacheData.directories[i].worktree = WA
       /\ cacheData.directories[i].lastUpdated = T_NEW

\* C13: with an explicit timestamp, the same upsertSessionDirectory call
\* issued a second time right after the first (nothing else changed the
\* snapshot in between) leaves the directory list and the watermark as the
\* first call left them.
C13_UpsertIdempotent ==
  [][\A w \in CallWorktrees, u \in TimeStamps :
       (lastUpsert.called /\ lastUpsert.worktree = w /\ lastUpsert.stamp = u
          /\ cacheLoaded /\ cacheData = lastUpsert.after /\ Upserts(w, u))
         => (/\ cacheData'.directories = cacheData.directories
             /\ cacheData'.lastSyncedUpdatedAt = cacheData.lastSyncedUpdatedAt)]_vars

C13_Witness ==
  /\ lastUpsert.again /\ lastUpsert.worktree = WB /\ lastUpsert.stamp = T_OLD
  /\ lastUpsert.after = cacheData
  /\ task[UPS].pc = "done"
  /\ Len(cacheData.directories) = MAX_CACHED_DIRECTORIES
  /\ Cached(cacheData.directories, WB) = {}
  /\ \E i \in 1..(Len(cacheData.directories) - 1) :
       cacheData.directories[i].lastUpdated = cacheData.directories[i + 1].lastUpdated

(***************************************************************************)
(* SpecParams: syncs that start from stored watermarks below, at and above *)
(* the safety window, with upserts that move the watermark in between      *)
(***************************************************************************)
ParamWatermarks ==
  {0 - TickMs, 0, TickMs, SYNC_SAFETY_WINDOW_MS, SYNC_SAFETY_WINDOW_MS + TickMs}
ParamBlobs ==
  {[kind |-> "object", lastSyncedUpdatedAt |-> w, directories |-> <<>>] :
     w \in ParamWatermarks}
ParamBatches == {<<>>, <<[directory |-> WA, updated |-> SYNC_SAFETY_WINDOW_MS + TickMs]>>}
ParamStamps == {TickMs, T_NEW}

NextParams ==
  \/ \E force \in BOOLEAN : syncSessionDirectoryCache("sync1", force)
  \/ SyncCheck("sync1")
  \/ RunSyncRequest("sync1")
  \/ \E kind \in RemoteFailures : RunSyncFail("sync1", kind)
  \/ \E sessions \in ParamBatches : RunSyncResponse("sync1", sessions)
  \/ SyncThen("sync1")
  \/ SyncCatch("sync1")
  \/ SyncFinally("sync1")
  \/ \E u \in ParamStamps : upsertSessionDirectory(WA, u)
  \/ PersistStart(TRUE)
  \/ PersistDone

InitParams == InitRest /\ stored \in ParamBlobs /\ platform = "linux"

SpecParams == InitParams /\ [][NextParams]_vars

\* call t sends its list-sessions request in this step
Requests(t) == task[t].pc = "rs_load" /\ task'[t].pc = "rs_wait"

\* C14 as claimed: every request has limit 1000, no start filter when the
\* watermark is zero, and start = watermark - 60 000 for every other
\* watermark.
C14_StartIsWatermarkMinusWindow ==
  [][\A t \in SyncTasks :
       Requests(t) =>
         /\ task'[t].params.limit = 1000
         /\ Watermark = 0 => task'[t].params.start = Absent
         /\ Watermark # 0 =>
              task'[t].params.start = Watermark - SYNC_SAFETY_WINDOW_MS]_vars

\* C14 as amended: every request has limit 1000; it has no start filter
\* when the watermark is zero or negative, start = 0 when the watermark is
\* positive and at most 60 000, and start = watermark - 60 000 above that.
C14_StartIsClamped ==
  [][\A t \in SyncTasks :
       Requests(t) =>
         /\ task'[t].params.limit = 1000
         /\ Watermark <= 0 => task'[t].params.start = Absent
         /\ (Watermark > 0 /\ Watermark <= 60000) => task'[t].params.start = 0
         /\ Watermark > 60000 => task'[t].params.start = Watermark - 60000]_vars

C14_Witness ==
  /\ task["sync1"].pc = "rs_wait"
  /\ task["sync1"].params = [limit |-> 1000, start |-> 0]
  /\ Watermark = TickMs
  /\ Directories # <<>>

(***************************************************************************)
(* SpecFallback: warmups whose fallbacks both fail, next to upserts and    *)
(* the persistence chain                                                   *)
(***************************************************************************)
FallbackStamps == {T_OLD, T_NEW}

NextFallback ==
  \/ \E u \in FallbackStamps : upsertSessionDirectory(WA, u)
  \/ \E ok \in BOOLEAN : PersistStart(ok)
  \/ PersistDone
  \/ warmupSessionDirectoryCache
  \/ SyncCheck(WARM)
  \/ RunSyncRequest(WARM)
  \/ \E kind \in RemoteFailures : RunSyncFail(WARM, kind)
  \/ \E sessions \in SyncBatches : RunSyncResponse(WARM, sessions)
  \/ SyncThen(WARM)
  \/ SyncCatch(WARM)
  \/ SyncFinally(WARM)
  \/ \E n \in 0..MaxRoots : PathInfo(WARM, n)
  \/ \E kind \in PathFailures : PathFail(WARM, kind)
  \/ \E kind \in SqliteSkips : SqliteSkipRoot(WARM, kind)
  \/ ScanSkipRoot(WARM)

SpecFallback == Init /\ [][NextFallback]_vars

\* warmup is inside one of its two fallbacks
FallbackPcs == {"sq_roots", "sq_root", "sc_roots", "sc_root"}

\* C15: when the path query of a fallback fails (no capability, error answer,
\* rejection) or none of its roots can be read (no database, unreadable
\* database, unlistable directory), the steps of that fallback leave the
\* directory list and the watermark unchanged and enqueue no write, and
\* warmup resolves.
C15_FallbackFailureIsolated ==
  /\ [](task[WARM].pc = "done" => task[WARM].outcome = "resolved")
  /\ [][(task[WARM].pc \in FallbackPcs /\ task'[WARM] # task[WARM]) =>
          /\ cacheData' = cacheData
          /\ persistQueue' = persistQueue
          /\ task'[WARM].pc \in FallbackPcs \cup {"done"}]_vars

C15_Witness ==
  /\ task[WARM].pc = "done"
  /\ task[WARM].outcome = "resolved"
  /\ task[WARM].stage = 3
  /\ ~task[WARM].rfail
  /\ Directories # <<>>
  /\ persistQueue = <<>>

(***************************************************************************)
(* The order of warmup's stages (Spec)                                     *)
(***************************************************************************)
PrimaryPcs == {"s_check", "s_attached", "rs_load", "rs_wait", "rs_persist",
               "s_then", "s_catch", "s_finally"}
SqlitePcs == {"sq_roots", "sq_root", "sq_persist"}
ScanPcs == {"sc_roots", "sc_root", "sc_read", "sc_persist"}

\* the stage warmup is in, read off its position in the code
StageOf(pc) ==
  CASE pc \in PrimaryPcs -> 1
    [] pc \in SqlitePcs -> 2
    [] pc \in ScanPcs -> 3
    [] OTHER -> 0

\* C16: a warmup run is in its primary sync, then in the sqlite fallback,
\* then in the file scan: a stage starts in the step that ends the one
\* before it, whether that one failed or not, and warmup resolves in the
\* step that ends the third stage.
C16_StagesInOrder ==
  /\ [](/\ task[WARM].pc \notin {"idle", "done"} => task[WARM].stage = StageOf(task[WARM].pc)
        /\ task[WARM].pc = "done" => task[WARM].stage = 3 /\ task[WARM].outcome = "resolved")
  /\ [][task'[WARM] # task[WARM] =>
          LET from == StageOf(task[WARM].pc)
              to == StageOf(task'[WARM].pc)
          IN /\ from = 0 => to = 1
             /\ from = 1 => to \in {1, 2}
             /\ from = 2 => to \in {2, 3}
             /\ from = 3 => to \in {3, 0}
             /\ (from = 1 /\ to = 2) => task[WARM].pc = "s_finally"
             /\ to = 0 => task'[WARM].pc = "done"]_vars

\* the primary sync failed and warmup still went through both fallbacks
C16_Witness ==
  /\ task[WARM].pc = "done"
  /\ task[WARM].rfail
  /\ task[WARM].stage = 3
  /\ task[WARM].outcome = "resolved"
  /\ Directories # <<>>

(***************************************************************************)
(* SpecPersist: upserts, warmups and reads while writes succeed or fail.   *)
(* The event loop runs every pending microtask and delivers the completion *)
(* of every write.                                                         *)
(***************************************************************************)
PersistStamps == {T_OLD, T_NEW}
PersistRows == {<<[worktree |-> WB, lastUpdated |-> T_OLD]>>}
PersistFiles == {[kind |-> "session", directory |-> WA, updated |-> T_NEW, mtime |-> T_OLD]}

Microtask ==
  \/ SyncCheck(WARM)
  \/ RunSyncRequest(WARM)
  \/ SyncThen(WARM)
  \/ SyncCatch(WARM)
  \/ SyncFinally(WARM)
  \/ \E ok \in BOOLEAN : PersistLogged(ok)

NextPersist ==
  \/ \E u \in PersistStamps : upsertSessionDirectory(WA, u)
  \/ getCachedSessionDirectories
  \/ warmupSessionDirectoryCache
  \/ Microtask
  \/ PersistDone
  \/ \E kind \in RemoteFailures : RunSyncFail(WARM, kind)
  \/ \E sessions \in SyncBatches : RunSyncResponse(WARM, sessions)
  \/ PathInfo(WARM, 1)
  \/ \E kind \in PathFailures : PathFail(WARM, kind)
  \/ \E rows \in PersistRows : SqliteIngest(WARM, rows)
  \/ ScanList(WARM, 1)
  \/ \E file \in PersistFiles : ScanFile(WARM, file)

InitPersist == Init /\ stored = AbsentBlob /\ platform = "linux"

SpecPersist ==
  /\ InitPersist
  /\ [][NextPersist]_vars
  /\ WF_vars(Microtask)
  /\ SF_vars(PersistDone)

\* the chain starts a write in this step, and the store rejects it
WriteFails == ~writing /\ writing' /\ lastWrite' = "failed"
\* the write in progress settles in this step
WriteEnds == writing /\ ~writing'
Queued(t) == \E i \in 1..Len(persistQueue) : persistQueue[i] = t
PersistTasks == {UPS, WARM}

\* C17: a write that fails changes nothing in memory, the call that awaits
\* it resolves, a read returns the directory list of the snapshot, and
\* every write that is enqueued is executed whatever became of the writes
\* before it.
C17_WriteFailureIsolated ==
  /\ [][(WriteFails \/ (WriteEnds /\ lastWrite = "failed")) =>
          /\ cacheData' = cacheData
          /\ cacheLoaded' = cacheLoaded
          /\ WriteEnds => persistQueue' = Tail(persistQueue)]_vars
  /\ [](\A t \in PersistTasks : task[t].pc = "done" => task[t].outcome = "resolved")
  /\ [](lastRead.kind = "directories" =>
          /\ Len(lastRead.value) = Len(lastRead.snapshot.directories)
          /\ \A i \in 1..Len(lastRead.value) :
               /\ lastRead.value[i].worktree = lastRead.snapshot.directories[i].worktree
               /\ lastRead.value[i].lastUpdated = lastRead.snapshot.directories[i].lastUpdated)
  /\ \A t \in PersistTasks : (Queued(t) /\ lastWrite = "failed") ~> ~Queued(t)

\* a write failed, the upsert that awaited it has resolved, and a read made
\* after that returned the entry that was never stored
C17_Witness ==
  /\ lastWrite = "failed"
  /\ persistQueue = <<>>
  /\ task[UPS].pc = "done"
  /\ task[UPS].outcome = "resolved"
  /\ stored = AbsentBlob
  /\ lastRead.kind = "directories"
  /\ lastRead.snapshot = cacheData
  /\ lastRead.value # <<>>

\* a call of t returns from its await of the chain in this step
Resumes(t) == task[t].pc \in {"u_persist", "rs_persist", "sq_persist", "sc_persist"}
              /\ task'[t] # task[t]

\* C18: a call that changed the snapshot goes on only when a write that was
\* started after its change has completed; when nothing is queued, the last
\* write succeeded and no file scan is half-way, the stored snapshot equals
\* the one in memory; and every queued write is started.
C18_PersistedCatchesUp ==
  /\ [][\A t \in PersistTasks :
          Resumes(t) => writing /\ ~writing' /\ Head(persistQueue) = t]_vars
  /\ []((persistQueue = <<>> /\ lastWrite = "ok" /\ task[WARM].pc # "sc_read")
          => stored = Blob(cacheData))
  /\ \A t \in PersistTasks : Queued(t) ~> (writing /\ Head(persistQueue) = t)

C18_Witness ==
  /\ persistQueue = <<>>
  /\ lastWrite = "ok"
  /\ task[WARM].pc = "done"
  /\ task[UPS].pc = "done"
  /\ stored = Blob(cacheData)
  /\ Len(Directories) = 2

(***************************************************************************)
(* SpecRead: reads of the project list between upserts                     *)
(***************************************************************************)
ReadWorktrees == {WA, WAUpper, WB}
ReadStamps == {T_OLD, T_NEW}

NextRead ==
  \/ \E w \in ReadWorktrees, u \in ReadStamps : upsertSessionDirectory(w, u)
  \/ PersistStart(TRUE)
  \/ PersistDone
  \/ getCachedSessionProjects
  \/ getCachedSessionDirectories

SpecRead == Init /\ [][NextRead]_vars

\* C19: a read of the project list returns one record per cached directory,
\* in cache order, with worktree and lastUpdated of the entry and the
\* worktree as name; a read that finds the snapshot of the read before it
\* returns the same sequence; and records of the same worktree carry the
\* same id, within a read and from one read to the next.
C19_ProjectsDeterministic ==
  /\ [](lastRead.kind = "projects" =>
          LET dirs == lastRead.snapshot.directories
              projects == lastRead.value
          IN /\ Len(projects) = Len(dirs)
             /\ \A i \in 1..Len(projects) :
                  /\ projects[i].worktree = dirs[i].worktree
                  /\ projects[i].lastUpdated = dirs[i].lastUpdated
                  /\ projects[i].name = dirs[i].worktree
             /\ \A i, j \in 1..Len(projects) :
                  projects[i].worktree = projects[j].worktree =>
                    projects[i].id = projects[j].id)
  /\ [][(lastRead.kind = "projects" /\ lastRead'.kind = "projects") =>
          /\ lastRead'.snapshot = lastRead.snapshot => lastRead'.value = lastRead.value
          /\ \A i \in 1..Len(lastRead.value), j \in 1..Len(lastRead'.value) :
               lastRead.value[i].worktree = lastRead'.value[j].worktree =>
                 lastRead.value[i].id = lastRead'.value[j].id]_vars

\* the project list of a cache of two entries is read once the upsert that
\* filled it has resolved
C19_Witness ==
  /\ lastRead.kind = "projects"
  /\ Len(lastRead.value) = 2
  /\ lastRead.value[2].worktree = WA
  /\ lastRead.snapshot = cacheData
  /\ Len(Directories) = 2
  /\ task[UPS].pc = "done"
  /\ persistQueue = <<>>

(***************************************************************************)
(* Superseding an event subscription (SpecEvents)                          *)
(***************************************************************************)
\* the calls of subscribeToEvents that have not settled
Running == {c \in Subs : sub[c].pc \in {"subscribing", "streaming", "yielded"}}
\* call c gets past the early return in this step
Subscribes(c) == sub[c].pc = "idle" /\ sub'[c].pc = "subscribing"
\* call c settles in this step
Completes(c) == sub[c].pc \in {"subscribing", "streaming", "yielded"} /\ sub'[c].pc = "done"

\* C21: at most one call that has not settled has an untriggered abort
\* signal, and it is the one the listener state belongs to; a call for
\* another directory triggers the signal of the running listener in the step
\* that issues its own request; a call whose signal was triggered resolves;
\* and a call that settles while the controller is not its own leaves the
\* listener state as it is.
C21_SupersedeAborts ==
  /\ [](\A c \in Running : ~aborted[c] =>
          /\ streamAbortController = c /\ isListening
          /\ \A e \in Running : ~aborted[e] => e = c)
  /\ [](\A c \in Subs : (sub[c].pc = "done" /\ aborted[c]) => sub[c].outcome = "resolved")
  /\ [][\A c \in Subs :
          /\ (Subscribes(c) /\ isListening) =>
                /\ streamAbortController # NoSub
                /\ aborted'[streamAbortController]
                /\ subscribed' = Append(subscribed, [directory |-> sub'[c].directory,
                                                     signal |-> c])
          /\ (Completes(c) /\ streamAbortController # c) => Listener' = Listener]_vars

\* the first call was superseded by a call for the other directory and has
\* resolved, and the listener state is the second call's
C21_Witness ==
  \E c, e \in Subs :
     /\ sub[c].pc = "done" /\ aborted[c] /\ sub[c].outcome = "resolved" /\ ~sub[c].dup
     /\ sub[e].pc = "streaming" /\ ~aborted[e]
     /\ sub[e].directory # sub[c].directory
     /\ isListening /\ streamAbortController = e /\ activeDirectory = sub[e].directory
     /\ eventStream = e /\ eventCallback = e
     /\ subscribed = <<[directory |-> sub[c].directory, signal |-> c],
                       [directory |-> sub[e].directory, signal |-> e]>>

(***************************************************************************)
(* SpecProjects: getProjects applied to answers of project.list, over      *)
(* stored caches that share worktrees with the answer or not               *)
(***************************************************************************)
RepoName == <<"R", "e", "p", "o">>
ApiIds == {<<"p1">>, <<"p2">>}
ApiInputs == [id : ApiIds, worktree : {WA, WAUpper}, name : {<<>>, RepoName},
              updated : {Absent, T_NEW}]
ApiLists == SeqsUpTo(ApiInputs, MaxApi)
LinkedSets == {{}, {WB}}
ProjectBlobs ==
  {AbsentBlob} \cup
  {[kind |-> "object", lastSyncedUpdatedAt |-> T_NEW, directories |-> dirs] :
     dirs \in {<<Dir(WB, T_NEW), Dir(WA, T_OLD)>>,
               <<Dir(WA, T_NEW), Dir(WB, T_OLD)>>,
               <<Dir(WA, T_NEW), Dir(WAUpper, T_OLD)>>,
               <<Dir(WAUpper, T_OLD)>>}}

\* one call in a run: the result depends on the answer and the cache only
NextProjects ==
  /\ lastRead.kind = "none"
  /\ \E kind \in ApiAnswers, projects \in ApiLists, linked \in LinkedSets :
        getProjects(kind, projects, linked)

InitProjects == InitRest /\ stored \in ProjectBlobs

SpecProjects == InitProjects /\ [][NextProjects]_vars

PKey(worktree) == projectWorktreeKey(platform, worktree)
KeysOf(list) == {PKey(list[i].worktree) : i \in 1..Len(list)}
\* the project a key stands for after the API list was put into the Map
KeptApi(list, key) ==
  list[CHOOSE i \in 1..Len(list) :
         /\ PKey(list[i].worktree) = key
         /\ \A j \in 1..Len(list) : PKey(list[j].worktree) = key => j <= i]
\* the lastUpdated the merge gives a key
MergedStamp(projects, cached, key) ==
  LET fromApi == IF key \in KeysOf(projects)
                 THEN (IF KeptApi(projects, key).updated = Absent THEN 0
                       ELSE KeptApi(projects, key).updated)
                 ELSE 0
      stamps == {cached[c].lastUpdated : c \in {d \in 1..Len(cached) :
                                                  PKey(cached[d].worktree) = key}}
  IN IF \E u \in stamps : u > fromApi THEN CHOOSE u \in stamps : u > fromApi ELSE fromApi

\* C22: when no worktree is a linked git worktree, the projects returned
\* have one project for every worktree key of the two lists and no two with
\* the same key; a key of the API list has the id and worktree of the API
\* project and its name, or the worktree when that name is empty, and not
\* the id of a cached project; a key of the cached list alone has the
\* cached project; the projects are in descending order of the merged
\* lastUpdated; and after an error or an answer without data the call is
\* rejected and returns nothing.
C22_MergeByWorktreeKey ==
  /\ []((lastRead.kind = "merged" /\ lastRead.snapshot.linked = {}) =>
       LET projects == lastRead.snapshot.projects
           cached == lastRead.snapshot.cached
           result == lastRead.value
       IN /\ \A i, j \in 1..Len(result) :
               PKey(result[i].worktree) = PKey(result[j].worktree) => i = j
          /\ KeysOf(result) = KeysOf(projects) \cup KeysOf(cached)
          /\ \A i \in 1..Len(result) :
               LET key == PKey(result[i].worktree)
               IN IF key \in KeysOf(projects)
                  THEN LET p == KeptApi(projects, key)
                       IN /\ result[i].id = p.id
                          /\ result[i].worktree = p.worktree
                          /\ result[i].name = (IF p.name = <<>> THEN p.worktree ELSE p.name)
                          /\ \A c \in 1..Len(cached) : result[i].id # cached[c].id
                  ELSE \E c \in 1..Len(cached) :
                          /\ result[i].id = cached[c].id
                          /\ result[i].worktree = cached[c].worktree
                          /\ result[i].name = cached[c].name
          /\ \A i, j \in 1..Len(result) : i < j =>
               MergedStamp(projects, cached, PKey(result[i].worktree))
                 >= MergedStamp(projects, cached, PKey(result[j].worktree)))
  /\ [][lastRead'.kind = "rejected" =>
          lastRead'.value = <<>> /\ cacheLoaded' = cacheLoaded /\ cacheData' = cacheData]_vars

\* two API projects, the second with an empty name and a worktree that is
\* cached with a later timestamp, and a worktree that is cached only
C22_Witness ==
  /\ lastRead.kind = "merged"
  /\ lastRead.snapshot.linked = {}
  /\ platform = "win32"
  /\ Len(lastRead.snapshot.projects) = 2
  /\ lastRead.snapshot.projects[2].worktree = WAUpper
  /\ lastRead.snapshot.projects[2].name = <<>>
  /\ lastRead.snapshot.projects[2].updated = Absent
  /\ Len(lastRead.snapshot.cached) = 2
  /\ lastRead.snapshot.cached[1].worktree = WA
  /\ Len(lastRead.value) = 2
  /\ lastRead.value[1].id = lastRead.snapshot.projects[2].id
  /\ lastRead.value[1].name = WAUpper
  /\ lastRead.value[2].worktree = WB

(***************************************************************************)
(* The order of writes (SpecPersist)                                       *)
(***************************************************************************)
\* C23: while a write is outstanding no other write is started; a write is
\* started only for the oldest call in the queue, which stays at the head
\* until the write has settled; and the queue changes only by a new call
\* joining at its end or by the call at its head leaving when its write
\* settles.
C23_SerializedWrites ==
  [][/\ writing => (stored' = stored /\ lastWrite' = lastWrite)
     /\ (~writing /\ writing') => (persistQueue # <<>> /\ persistQueue' = persistQueue)
     /\ persistQueue' # persistQueue =>
          \/ \E t \in PersistTasks : ~Queued(t) /\ persistQueue' = Append(persistQueue, t)
          \/ writing /\ ~writing' /\ persistQueue' = Tail(persistQueue)]_vars

\* the write of the upsert is outstanding and the write of the warmup's
\* sync, enqueued after it, has not been started
C23_Witness ==
  /\ writing
  /\ persistQueue = <<UPS, WARM>>
  /\ task[UPS].pc = "u_persist"
  /\ task[WARM].pc = "rs_persist"
  /\ lastWrite = "failed"

(***************************************************************************)
(* What an upsert reports (SpecCalls)                                      *)
(***************************************************************************)
\* C25: upsertDirectory returns true exactly when the directory list after
\* the call differs from the list before it, so a call of
\* upsertSessionDirectory enqueues a write exactly when it changed the
\* cached list, with a full list as with any other.
C25_ReportsChange ==
  [][\A w \in CallWorktrees, u \in TimeStamps \cup {Absent} :
       Upserts(w, u) =>
         /\ upsertDirectory(platform, Before.directories, w,
                            IF u = Absent THEN now ELSE u).changed
               <=> (cacheData'.directories # Before.directories)
         /\ (persistQueue' # persistQueue)
               <=> (cacheData'.directories # Before.directories)]_vars

(***************************************************************************)
(* The write of a sync batch (SpecCalls)                                   *)
(***************************************************************************)
\* a list-sessions response is processed by caller t in this step
Processes(t) ==
  /\ task[t].pc = "rs_wait"
  /\ task'[t].pc \in {"rs_persist", "s_then"}

\* C24: a successful sync enqueues exactly one write for the whole batch
\* when the batch changed the directory list or the watermark of the
\* snapshot, and no write when it left both as they were.
C24_WriteIffMutated ==
  [][\A t \in DOMAIN task :
       Processes(t) =>
         IF cacheData'.directories # cacheData.directories
            \/ cacheData'.lastSyncedUpdatedAt # cacheData.lastSyncedUpdatedAt
         THEN persistQueue' = Append(persistQueue, t)
         ELSE persistQueue' = persistQueue]_vars

(***************************************************************************)
(* SpecLoad: the first load of a stored value of any shape                 *)
(***************************************************************************)
LoadEntries ==
  {Dir(WA, T_OLD), Dir(WAUpper, T_NEW), Dir(WAPadded, T_NEW), Dir(WRoot, T_NEW),
   Dir(WBlank, T_NEW), Dir(NotString, T_NEW), Dir(WA, Absent), Dir(WB, T_OLD)}

\* more entries than the cap, oldest first, the first directory twice
LongList ==
  [i \in 1..NumFillers |-> Dir(Filler(i), FillerStamp(i))] \o <<Dir(Filler(1), T_NEW)>>

LoadLists == SeqsUpTo(LoadEntries, MaxLoad) \cup {LongList}
LoadWatermarks == {Absent, T_OLD, T_NEW}

LoadBlobs ==
  {AbsentBlob, [kind |-> "string"]}
    \cup [kind : {"object"}, lastSyncedUpdatedAt : LoadWatermarks, directories : LoadLists]
    \cup [kind : {"object"}, directories : LoadLists]
    \cup [kind : {"object"}, lastSyncedUpdatedAt : LoadWatermarks]
    \cup {[kind |-> "object"]}

NextLoad ==
  \/ getCachedSessionDirectories
  \/ getCachedSessionProjects

InitLoad == InitRest /\ stored \in LoadBlobs

SpecLoad == InitLoad /\ [][NextLoad]_vars

\* the entries of a stored value that are well-typed and whose trimmed
\* worktree is neither blank nor "/"
StoredEntries ==
  IF stored.kind = "object" /\ "directories" \in DOMAIN stored
  THEN {stored.directories[i] : i \in 1..Len(stored.directories)} ELSE {}
UsableEntries ==
  {e \in StoredEntries :
     /\ e.worktree # NotString /\ e.lastUpdated # Absent
     /\ Trimmed(e.worktree) # <<>> /\ Trimmed(e.worktree) # <<"/">>}
StoredKey(e) == IdentityKey(Trimmed(e.worktree))
StoredKeys == {StoredKey(e) : e \in UsableEntries}
StoredNewest(key) ==
  CHOOSE u \in {e.lastUpdated : e \in {x \in UsableEntries : StoredKey(x) = key}} :
    \A e \in UsableEntries : StoredKey(e) = key => e.lastUpdated <= u
StoredWatermark ==
  IF stored.kind = "object" /\ "lastSyncedUpdatedAt" \in DOMAIN stored
     /\ stored.lastSyncedUpdatedAt # Absent
  THEN stored.lastSyncedUpdatedAt ELSE 0

\* C26: whatever the stored value is, the first load yields a snapshot of
\* version 1 whose watermark is the stored number, or 0 when there is none,
\* and whose directory list has at most 10 entries, sorted descending by
\* lastUpdated, one per identity key of the usable stored entries with the
\* largest lastUpdated stored for the key, the keys left out by the cap
\* being no newer than those kept; a value that is not an object yields the
\* empty snapshot, and the read that loads returns a value.
C26_LoadSelfHeals ==
  cacheLoaded =>
    /\ lastRead.kind \in {"directories", "projects"}
    /\ cacheData.version = 1
    /\ cacheData.lastSyncedUpdatedAt = StoredWatermark
    /\ stored.kind # "object" => cacheData = createEmptyCacheData
    /\ Len(Directories) <= 10
    /\ Len(Directories) = IF Cardinality(StoredKeys) < 10 THEN Cardinality(StoredKeys) ELSE 10
    /\ \A i \in 1..Len(Directories) :
         /\ Directories[i].worktree = Trimmed(Directories[i].worktree)
         /\ Directories[i].worktree \notin {<<>>, <<"/">>, NotString}
         /\ IdentityKey(Directories[i].worktree) \in StoredKeys
         /\ Directories[i].lastUpdated = StoredNewest(IdentityKey(Directories[i].worktree))
         /\ \A j \in 1..Len(Directories) :
              /\ i < j => Directories[i].lastUpdated >= Directories[j].lastUpdated
              /\ i # j => IdentityKey(Directories[i].worktree)
                             # IdentityKey(Directories[j].worktree)
         /\ \A k \in StoredKeys :
              (\A j \in 1..Len(Directories) : IdentityKey(Directories[j].worktree) # k)
                => StoredNewest(k) <= Directories[i].lastUpdated

\* a stored object with a watermark of the wrong type and twelve entries,
\* oldest first and one directory twice, has been loaded: ten entries are
\* left, the duplicated directory first with its larger timestamp
C26_Witness ==
  /\ cacheLoaded
  /\ stored.kind = "object"
  /\ "lastSyncedUpdatedAt" \in DOMAIN stored
  /\ stored.lastSyncedUpdatedAt = Absent
  /\ "directories" \in DOMAIN stored
  /\ Len(stored.directories) > 10
  /\ Len(Directories) = 10
  /\ Directories[1] = Dir(Filler(1), T_NEW)
  /\ cacheData.lastSyncedUpdatedAt = 0

(***************************************************************************)
(* SpecSqlite: the sqlite fallback of a warmup whose remote sync failed,   *)
(* over one or more candidate roots, beside upserts                        *)
(***************************************************************************)
NextSqlite ==
  \/ \E u \in TimeStamps : upsertSessionDirectory(WA, u)
  \/ PersistStart(TRUE)
  \/ PersistDone
  \/ warmupSessionDirectoryCache
  \/ SyncCheck(WARM)
  \/ RunSyncRequest(WARM)
  \/ \E kind \in RemoteFailures : RunSyncFail(WARM, kind)
  \/ SyncCatch(WARM)
  \/ SyncFinally(WARM)
  \/ \E n \in 1..MaxRoots : PathInfo(WARM, n)
  \/ \E kind \in PathFailures : PathFail(WARM, kind)
  \/ \E kind \in SqliteSkips : SqliteSkipLogged(WARM, kind)
  \/ \E rows \in SqliteRows : SqliteIngestLogged(WARM, rows)

SpecSqlite == Init /\ [][NextSqlite]_vars

\* the loop of the sqlite fallback handles the answer of a root in this step
Consults == task[WARM].pc = "sq_root" /\ task'[WARM] # task[WARM]

\* the loop is left: warmup awaits the write or is in the file scan
LeftLoop == task'[WARM].pc \in {"sq_persist", "sc_roots"}

AtRest ==
  /\ \A t \in DOMAIN task : task[t].pc \in {"idle", "done"}
  /\ persistQueue = <<>>

\* C28: the watermark is greater than or equal to the lastUpdated of every
\* cached directory, whatever the interleaving of sync, fallback ingestion
\* and upsertSessionDirectory calls that led to the state; stated for the
\* states in which every call has returned, which the claim includes.
C28_WatermarkCoversEntries ==
  (cacheLoaded /\ AtRest) =>
    \A i \in 1..Len(Directories) : Directories[i].lastUpdated <= Watermark

(***************************************************************************)
(* Eviction (Spec)                                                         *)
(***************************************************************************)
\* the positions of the list that hold the directory of the entry
Holds(dirs, entry) ==
  {j \in 1..Len(dirs) : IdentityKey(dirs[j].worktree) = IdentityKey(entry.worktree)}

\* C29: a step of an upsert, a sync or a fallback ingestion keeps every
\* cached directory with a lastUpdated that is not lower than before, or
\* removes it by the cap, and then the list holds 10 entries each of which
\* has a lastUpdated greater than or equal to that of the removed one.
C29_EvictsLeastRecent ==
  [][(cacheLoaded' /\ cacheData'.directories # Before.directories) =>
       \A i \in 1..Len(Before.directories) :
         LET entry == Before.directories[i]
             kept == Holds(cacheData'.directories, entry)
         IN IF kept # {}
            THEN \A j \in kept : cacheData'.directories[j].lastUpdated >= entry.lastUpdated
            ELSE /\ Len(cacheData'.directories) = 10
                 /\ \A j \in 1..10 :
                      cacheData'.directories[j].lastUpdated >= entry.lastUpdated]_vars

\* the cap has removed the oldest of the ten directories of a full cache
\* for a directory that is newer than all of them
C29_Witness ==
  /\ cacheLoaded
  /\ Len(Directories) = 10
  /\ Directories[1].lastUpdated = T_NEW
  /\ IdentityKey(Directories[1].worktree) = IdentityKey(WA)
  /\ Holds(Directories, Dir(Filler(1), 0)) = {}
  /\ \A i \in 2..10 : Holds(Directories, Dir(Filler(i), 0)) # {}

(***************************************************************************)
(* SpecFirst: from an empty persisted cache, calls that report a session   *)
(* beside the first sync calls of the process                              *)
(***************************************************************************)
InfoSessions ==
  [directory : {WA, WEmpty}, updated : {T_OLD, Absent}]

FirstCaller == "sync1"

NextFirst ==
  \/ \E session \in InfoSessions : ingestSessionInfoForCache(session)
  \/ upsertSessionDirectory(WAUpper, T_NEW)
  \/ PersistStart(TRUE)
  \/ PersistDone
  \/ \E force \in BOOLEAN : syncSessionDirectoryCache(FirstCaller, force)
  \/ SyncCheck(FirstCaller)
  \/ RunSyncRequest(FirstCaller)
  \/ \E kind \in RemoteFailures : RunSyncFail(FirstCaller, kind)
  \/ \E sessions \in SyncBatches : RunSyncResponse(FirstCaller, sessions)
  \/ SyncThen(FirstCaller)
  \/ SyncCatch(FirstCaller)
  \/ SyncFinally(FirstCaller)
  \/ Tick

InitFirst == Init /\ stored = AbsentBlob /\ platform = "linux"

SpecFirst == InitFirst /\ [][NextFirst]_vars

\* C30: starting from an empty persisted cache, the watermark leaves zero
\* only in a step that processes the response of a list-sessions request,
\* and the first request of the process, sent before any sync call has
\* settled, has limit 1000 and no start filter, whatever calls of
\* upsertSessionDirectory and ingestSessionInfoForCache came before it.
C30_FirstRequestIsWarmup ==
  /\ [][(Watermark = 0 /\ Watermark' # 0) => Processes(FirstCaller)]_vars
  /\ [][(Requests(FirstCaller) /\ ~prevSync.valid) =>
          task'[FirstCaller].params = [limit |-> INITIAL_WARMUP_LIMIT, start |-> Absent]]_vars

====
